---- MODULE Spec2Model ----
(***************************************************************************)
(* Model of actions-cost-guard's workflow cost estimator (estimator.ts):   *)
(* sanitizeEstimateInput, parseJobsAndSteps, aggregateByOs and             *)
(* estimateWorkflowCost, run as one pipeline over a raw request payload.   *)
(*                                                                         *)
(* Numbers.  A JavaScript number is a record [tag, v]: tag "fin" with v    *)
(* the value in thousandths (Scale), or tag "nan" / "inf" / "ninf".        *)
(* Every quantity the estimator computes is a decimal with at most three   *)
(* places (minutes are multiples of 0.5, rates multiples of 0.008), so     *)
(* thousandths hold it exactly; the binary rounding error of the doubles   *)
(* (about 1e-16 relative) is far below the 0.001 that separates such a     *)
(* value from the nearest rounding boundary, so Math.round sees the same   *)
(* side of the boundary as the exact decimal does.                         *)
(*                                                                         *)
(* Text.  Strings are TLA+ strings read with Head/Tail/SubSeq/Len.         *)
(***************************************************************************)
EXTENDS Integers, Sequences, FiniteSets, TLC

(***************************************************************************)
(* Bounds of the model                                                     *)
(***************************************************************************)
\* most lines after the first of a workflow text generated line by line
MaxLines == 3

\* most jobs of a workflow text generated job by job
MaxJobs == 2

(***************************************************************************)
(* Fixed point                                                             *)
(***************************************************************************)
\* thousandths per unit
Scale == 1000

Fin(v) == [tag |-> "fin", v |-> v]
NaN == [tag |-> "nan", v |-> 0]
PosInfinity == [tag |-> "inf", v |-> 0]
NegInfinity == [tag |-> "ninf", v |-> 0]

\* Number.isFinite
IsFinite(n) == n.tag = "fin"

\* Math.round on thousandths: nearest integer, halves towards +infinity
MathRound(v) == (v + 500) \div 1000

\* roundMoney(value) = Math.round((value + Number.EPSILON) * 100) / 100,
\* on thousandths, result in thousandths (a multiple of 10)
roundMoney(value) == ((value + 5) \div 10) * 10

(***************************************************************************)
(* Strings                                                                 *)
(***************************************************************************)
\* the characters of s at positions i..j (1-based), clipped to the string,
\* as String.prototype.substring clips its arguments
Substring(s, i, j) ==
    LET hi == IF j > Len(s) THEN Len(s) ELSE j
    IN IF i < 1 \/ i > hi THEN "" ELSE SubSeq(s, i, hi)

\* String.prototype.charAt ("" outside the string)
CharAt(s, i) == IF i >= 1 /\ i <= Len(s) THEN SubSeq(s, i, i) ELSE ""

\* what String.prototype.trim and the regex class \s treat as white space
WhiteSpace == {" ", "\t", "\n", "\r"}

DigitChars == {"0", "1", "2", "3", "4", "5", "6", "7", "8", "9"}

LowerLetters ==
    {"a", "b", "c", "d", "e", "f", "g", "h", "i", "j", "k", "l", "m",
     "n", "o", "p", "q", "r", "s", "t", "u", "v", "w", "x", "y", "z"}

UpperLetters ==
    {"A", "B", "C", "D", "E", "F", "G", "H", "I", "J", "K", "L", "M",
     "N", "O", "P", "Q", "R", "S", "T", "U", "V", "W", "X", "Y", "Z"}

\* the regex class [a-zA-Z0-9_-]
IdentChars == LowerLetters \cup UpperLetters \cup DigitChars \cup {"_", "-"}

\* first index >= i whose character is not in set (Len(s)+1 if none)
SkipSet(s, i, set) ==
    IF \A j \in i..Len(s) : CharAt(s, j) \in set
    THEN Len(s) + 1
    ELSE CHOOSE j \in i..Len(s) :
             /\ CharAt(s, j) \notin set
             /\ \A k \in i..(j - 1) : CharAt(s, k) \in set

\* String.prototype.startsWith at position i
StartsWithAt(s, i, prefix) == Substring(s, i, i + Len(prefix) - 1) = prefix

\* String.prototype.includes
Includes(s, needle) == \E i \in 1..(Len(s) + 1) : StartsWithAt(s, i, needle)

RECURSIVE TrimStart(_)
TrimStart(s) ==
    IF s # "" /\ Head(s) \in WhiteSpace THEN TrimStart(Tail(s)) ELSE s

RECURSIVE TrimEnd(_)
TrimEnd(s) ==
    IF s # "" /\ CharAt(s, Len(s)) \in WhiteSpace
    THEN TrimEnd(Substring(s, 1, Len(s) - 1))
    ELSE s

\* String.prototype.trim
Trim(s) == TrimEnd(TrimStart(s))

LowerChar(c) ==
    CASE c = "A" -> "a" [] c = "B" -> "b" [] c = "C" -> "c" [] c = "D" -> "d"
      [] c = "E" -> "e" [] c = "F" -> "f" [] c = "G" -> "g" [] c = "H" -> "h"
      [] c = "I" -> "i" [] c = "J" -> "j" [] c = "K" -> "k" [] c = "L" -> "l"
      [] c = "M" -> "m" [] c = "N" -> "n" [] c = "O" -> "o" [] c = "P" -> "p"
      [] c = "Q" -> "q" [] c = "R" -> "r" [] c = "S" -> "s" [] c = "T" -> "t"
      [] c = "U" -> "u" [] c = "V" -> "v" [] c = "W" -> "w" [] c = "X" -> "x"
      [] c = "Y" -> "y" [] c = "Z" -> "z" [] OTHER -> c

\* String.prototype.toLowerCase
RECURSIVE ToLowerCase(_)
ToLowerCase(s) ==
    IF s = "" THEN "" ELSE LowerChar(Head(s)) \o ToLowerCase(Tail(s))

DigitVal(c) ==
    CASE c = "0" -> 0 [] c = "1" -> 1 [] c = "2" -> 2 [] c = "3" -> 3
      [] c = "4" -> 4 [] c = "5" -> 5 [] c = "6" -> 6 [] c = "7" -> 7
      [] c = "8" -> 8 [] c = "9" -> 9

\* value of a string of decimal digits ("" is 0)
RECURSIVE DigitsVal(_)
DigitsVal(s) ==
    IF s = "" THEN 0
    ELSE DigitsVal(Substring(s, 1, Len(s) - 1)) * 10 + DigitVal(CharAt(s, Len(s)))

\* thousandths denoted by the digits after a decimal point (digits past the
\* third are below the model's resolution)
FractionVal(s) ==
    LET d == Substring(s, 1, 3)
    IN CASE Len(d) = 0 -> 0
         [] Len(d) = 1 -> DigitsVal(d) * 100
         [] Len(d) = 2 -> DigitsVal(d) * 10
         [] OTHER -> DigitsVal(d)

\* Number.parseFloat: skips leading white space, reads the longest prefix
\* that is a decimal literal (sign, digits, '.', digits) or a signed
\* "Infinity", ignores whatever follows, and yields NaN if there is no such
\* prefix.  Exponents are not modelled (no input of the model has one).
ParseFloat(str) ==
    LET s == TrimStart(str)
        neg == s # "" /\ Head(s) = "-"
        signed == s # "" /\ Head(s) \in {"-", "+"}
        p == IF signed THEN 2 ELSE 1
        q == SkipSet(s, p, DigitChars)
        hasDot == CharAt(s, q) = "."
        r == IF hasDot THEN SkipSet(s, q + 1, DigitChars) ELSE q
        intDigits == Substring(s, p, q - 1)
        fracDigits == IF hasDot THEN Substring(s, q + 1, r - 1) ELSE ""
        mag == DigitsVal(intDigits) * Scale + FractionVal(fracDigits)
    IN IF StartsWithAt(s, p, "Infinity")
       THEN IF neg THEN NegInfinity ELSE PosInfinity
       ELSE IF intDigits = "" /\ fracDigits = ""
       THEN NaN
       ELSE Fin(IF neg THEN 0 - mag ELSE mag)

(***************************************************************************)
(* JavaScript values of the raw payload (Record<string, unknown>)          *)
(***************************************************************************)
JsNumber(n) == [type |-> "number", num |-> n, str |-> ""]
JsString(s) == [type |-> "string", num |-> NaN, str |-> s]
JsUndefined == [type |-> "undefined", num |-> NaN, str |-> ""]
JsBoolean(b) == [type |-> "boolean", num |-> NaN, str |-> IF b THEN "true" ELSE "false"]
JsNull == [type |-> "object", num |-> NaN, str |-> ""]

\* String(value) of a value that is not a number
JsToString(x) ==
    CASE x.type = "string" -> x.str
      [] x.type = "boolean" -> x.str
      [] x.type = "undefined" -> "undefined"
      [] OTHER -> "null"

(***************************************************************************)
(* sanitizeEstimateInput                                                   *)
(***************************************************************************)
\* longest accepted workflow text, in characters
MaxWorkflowChars == 100000

\* largest accepted monthlyRuns and budgetUsd
MaxMonthlyRuns == 1000000
MaxBudgetUsd == 1000000

NoInput == [workflowYaml |-> "", monthlyRuns |-> 0, budgetUsd |-> 0, policyMode |-> ""]

Thrown(code) == [error |-> code, input |-> NoInput]

\* typeof raw === "number" ? raw : Number.parseFloat(String(raw))
ToNumber(raw) == IF raw.type = "number" THEN raw.num ELSE ParseFloat(JsToString(raw))

\* the sanitizer with monthlyRuns compared by < 0 instead of <= 0
sanitizeEstimateInputZeroRuns(payload) ==
    LET workflowYaml ==
            IF payload.workflowYaml.type = "string"
            THEN Trim(payload.workflowYaml.str) ELSE ""
        monthlyRuns == ToNumber(payload.monthlyRuns)
        budgetUsd == ToNumber(payload.budgetUsd)
        modeRaw ==
            IF payload.policyMode.type = "string"
            THEN ToLowerCase(Trim(payload.policyMode.str)) ELSE ""
    IN IF workflowYaml = "" \/ Len(workflowYaml) > MaxWorkflowChars
       THEN Thrown("invalid_workflow_yaml")
       ELSE IF \/ ~IsFinite(monthlyRuns)
               \/ monthlyRuns.v < 0
               \/ monthlyRuns.v > MaxMonthlyRuns * Scale
       THEN Thrown("invalid_monthly_runs")
       ELSE IF \/ ~IsFinite(budgetUsd)
               \/ budgetUsd.v <= 0
               \/ budgetUsd.v > MaxBudgetUsd * Scale
       THEN Thrown("invalid_budget_usd")
       ELSE IF modeRaw # "warn" /\ modeRaw # "block"
       THEN Thrown("invalid_policy_mode")
       ELSE [error |-> "none",
             input |-> [workflowYaml |-> workflowYaml,
                        monthlyRuns |-> MathRound(monthlyRuns.v),
                        budgetUsd |-> roundMoney(budgetUsd.v),
                        policyMode |-> modeRaw]]

\* the sanitizer with the policy mode tested ahead of the budget
sanitizeEstimateInputModeFirst(payload) ==
    LET workflowYaml ==
            IF payload.workflowYaml.type = "string"
            THEN Trim(payload.workflowYaml.str) ELSE ""
        monthlyRuns == ToNumber(payload.monthlyRuns)
        budgetUsd == ToNumber(payload.budgetUsd)
        modeRaw ==
            IF payload.policyMode.type = "string"
            THEN ToLowerCase(Trim(payload.policyMode.str)) ELSE ""
    IN IF workflowYaml = "" \/ Len(workflowYaml) > MaxWorkflowChars
       THEN Thrown("invalid_workflow_yaml")
       ELSE IF \/ ~IsFinite(monthlyRuns)
               \/ monthlyRuns.v <= 0
               \/ monthlyRuns.v > MaxMonthlyRuns * Scale
       THEN Thrown("invalid_monthly_runs")
       ELSE IF modeRaw # "warn" /\ modeRaw # "block"
       THEN Thrown("invalid_policy_mode")
       ELSE IF \/ ~IsFinite(budgetUsd)
               \/ budgetUsd.v <= 0
               \/ budgetUsd.v > MaxBudgetUsd * Scale
       THEN Thrown("invalid_budget_usd")
       ELSE [error |-> "none",
             input |-> [workflowYaml |-> workflowYaml,
                        monthlyRuns |-> MathRound(monthlyRuns.v),
                        budgetUsd |-> roundMoney(budgetUsd.v),
                        policyMode |-> modeRaw]]

sanitizeEstimateInput(payload) ==
    LET workflowYaml ==
            IF payload.workflowYaml.type = "string"
            THEN Trim(payload.workflowYaml.str) ELSE ""
        monthlyRuns == ToNumber(payload.monthlyRuns)
        budgetUsd == ToNumber(payload.budgetUsd)
        modeRaw ==
            IF payload.policyMode.type = "string"
            THEN ToLowerCase(Trim(payload.policyMode.str)) ELSE ""
    IN IF workflowYaml = "" \/ Len(workflowYaml) > MaxWorkflowChars
       THEN Thrown("invalid_workflow_yaml")
       ELSE IF \/ ~IsFinite(monthlyRuns)
               \/ monthlyRuns.v <= 0
               \/ monthlyRuns.v > MaxMonthlyRuns * Scale
       THEN Thrown("invalid_monthly_runs")
       ELSE IF \/ ~IsFinite(budgetUsd)
               \/ budgetUsd.v <= 0
               \/ budgetUsd.v > MaxBudgetUsd * Scale
       THEN Thrown("invalid_budget_usd")
       ELSE IF modeRaw # "warn" /\ modeRaw # "block"
       THEN Thrown("invalid_policy_mode")
       ELSE [error |-> "none",
             input |-> [workflowYaml |-> workflowYaml,
                        monthlyRuns |-> MathRound(monthlyRuns.v),
                        budgetUsd |-> roundMoney(budgetUsd.v),
                        policyMode |-> modeRaw]]

(***************************************************************************)
(* parseJobsAndSteps: the line patterns                                    *)
(***************************************************************************)
\* first index >= i whose character is in set (Len(s)+1 if none)
FindSet(s, i, set) ==
    IF \A j \in i..Len(s) : CharAt(s, j) \notin set
    THEN Len(s) + 1
    ELSE CHOOSE j \in i..Len(s) :
             /\ CharAt(s, j) \in set
             /\ \A k \in i..(j - 1) : CharAt(s, k) \notin set

\* workflowYaml.split(/\r?\n/)
RECURSIVE SplitLines(_)
SplitLines(text) ==
    LET nl == FindSet(text, 1, {"\n"})
        cut == IF CharAt(text, nl - 1) = "\r" THEN nl - 2 ELSE nl - 1
    IN IF nl > Len(text)
       THEN <<text>>
       ELSE <<Substring(text, 1, cut)>> \o SplitLines(Substring(text, nl + 1, Len(text)))

\* rawLine.replace(/#.*$/, ""): cut at the first '#' that only characters
\* matched by '.' (anything but a line terminator) separate from the end
StripComment(rawLine) ==
    LET lastBreak == IF \E j \in 1..Len(rawLine) : CharAt(rawLine, j) \in {"\r", "\n"}
                     THEN CHOOSE j \in 1..Len(rawLine) :
                              /\ CharAt(rawLine, j) \in {"\r", "\n"}
                              /\ FindSet(rawLine, j + 1, {"\r", "\n"}) > Len(rawLine)
                     ELSE 0
        hash == FindSet(rawLine, lastBreak + 1, {"#"})
    IN Substring(rawLine, 1, hash - 1)

\* /^jobs\s*:/.test(trimmed)
IsJobsMarker(trimmed) ==
    /\ StartsWithAt(trimmed, 1, "jobs")
    /\ CharAt(trimmed, SkipSet(trimmed, 5, WhiteSpace)) = ":"

\* /^\s{n}/ followed by something that is no white space: the first n
\* characters are white space
Indented(line, n) == \A i \in 1..n : CharAt(line, i) \in WhiteSpace

\* /^\s{2}[a-zA-Z0-9_-]+\s*:\s*$/.test(line)
IsJobHeader(line) ==
    LET a == SkipSet(line, 3, IdentChars)
        b == SkipSet(line, a, WhiteSpace)
    IN /\ Indented(line, 2)
       /\ a > 3
       /\ CharAt(line, b) = ":"
       /\ SkipSet(line, b + 1, WhiteSpace) > Len(line)

\* line.match(/^\s{4}runs-on\s*:\s*(.+)\s*$/): what follows the colon
RunsOnRest(line) ==
    Substring(line, SkipSet(line, 12, WhiteSpace) + 1, Len(line))

\* whether the pattern matches: after the colon there is a non-empty run of
\* characters other than line terminators, with only white space around it
IsRunsOn(line) ==
    LET rest == RunsOnRest(line)
    IN /\ Indented(line, 4)
       /\ StartsWithAt(line, 5, "runs-on")
       /\ CharAt(line, SkipSet(line, 12, WhiteSpace)) = ":"
       /\ IF Trim(rest) = ""
          THEN \E i \in 1..Len(rest) : CharAt(rest, i) \in {" ", "\t"}
          ELSE FindSet(Trim(rest), 1, {"\r", "\n"}) > Len(Trim(rest))

\* /^\s{6}-\s+<key>\s*:/.test(line)
IsStep(line, key) ==
    LET a == SkipSet(line, 8, WhiteSpace)
    IN /\ Indented(line, 6)
       /\ CharAt(line, 7) = "-"
       /\ a > 8
       /\ StartsWithAt(line, a, key)
       /\ CharAt(line, SkipSet(line, a + Len(key), WhiteSpace)) = ":"

IsUses(line) == IsStep(line, "uses")
IsRun(line) == IsStep(line, "run")

\* parseRunsOn with the macos test ahead of the windows test
parseRunsOnMacFirst(raw) ==
    LET normalized == ToLowerCase(Trim(raw))
    IN IF Includes(normalized, "macos") \/ Includes(normalized, "mac") THEN "macos"
       ELSE IF Includes(normalized, "windows") THEN "windows"
       ELSE "linux"

\* parseRunsOn
parseRunsOn(raw) ==
    LET normalized == ToLowerCase(Trim(raw))
    IN IF Includes(normalized, "windows") THEN "windows"
       ELSE IF Includes(normalized, "macos") \/ Includes(normalized, "mac") THEN "macos"
       ELSE "linux"

(***************************************************************************)
(* Constants of the estimator (thousandths)                                *)
(***************************************************************************)
\* OS_RATE_PER_MINUTE_USD: 0.008, 0.016, 0.08
OS_RATE_PER_MINUTE_USD == [linux |-> 8, windows |-> 16, macos |-> 80]

\* STEP_MINUTES: 1.5, 3
STEP_MINUTES == [uses |-> 1500, run |-> 3000]

\* minutes of a job before its steps: 2
BaseJobMinutes == 2000

\* the job substituted when none was recognized: linux, 3 steps, 8.5 minutes
FallbackJob == [os |-> "linux", steps |-> 3, minutes |-> 8500]

\* product of two numbers in thousandths
Mul(a, b) == (a * b) \div Scale

(***************************************************************************)
(* aggregateByOs                                                           *)
(***************************************************************************)
\* OS_RATE_PER_MINUTE_USD[os] ?? OS_RATE_PER_MINUTE_USD.linux
RateOf(os) ==
    IF os \in DOMAIN OS_RATE_PER_MINUTE_USD
    THEN OS_RATE_PER_MINUTE_USD[os]
    ELSE OS_RATE_PER_MINUTE_USD.linux

\* position of the key in the Map (a sequence in insertion order), 0 if absent
MapIndex(map, os) ==
    IF \E i \in 1..Len(map) : map[i].os = os
    THEN CHOOSE i \in 1..Len(map) : map[i].os = os
    ELSE 0

\* the iteration with an update that deletes the key and inserts it again,
\* which moves the entry to the end of the Map
AddJobReinserting(map, job) ==
    LET rate == RateOf(job.os)
        at == MapIndex(map, job.os)
        existing ==
            IF at # 0 THEN map[at]
            ELSE [os |-> job.os, jobs |-> 0, stepCount |-> 0,
                  minutesPerRun |-> 0, costPerRunUsd |-> 0]
        updated ==
            [os |-> existing.os,
             jobs |-> existing.jobs + 1,
             stepCount |-> existing.stepCount + job.steps,
             minutesPerRun |-> existing.minutesPerRun + job.minutes,
             costPerRunUsd |-> existing.costPerRunUsd + Mul(job.minutes, rate)]
        others == [i \in 1..(Len(map) - 1) |-> IF i < at THEN map[i] ELSE map[i + 1]]
    IN IF at # 0 THEN Append(others, updated) ELSE Append(map, updated)

\* the iteration with the cost of the job rounded before it is added
AddJobRounded(map, job) ==
    LET rate == RateOf(job.os)
        at == MapIndex(map, job.os)
        existing ==
            IF at # 0 THEN map[at]
            ELSE [os |-> job.os, jobs |-> 0, stepCount |-> 0,
                  minutesPerRun |-> 0, costPerRunUsd |-> 0]
        updated ==
            [os |-> existing.os,
             jobs |-> existing.jobs + 1,
             stepCount |-> existing.stepCount + job.steps,
             minutesPerRun |-> existing.minutesPerRun + job.minutes,
             costPerRunUsd |-> existing.costPerRunUsd
                                  + roundMoney(Mul(job.minutes, rate))]
    IN IF at # 0 THEN [map EXCEPT ![at] = updated] ELSE Append(map, updated)

\* one iteration of the loop over the jobs
AddJob(map, job) ==
    LET rate == RateOf(job.os)
        at == MapIndex(map, job.os)
        existing ==
            IF at # 0 THEN map[at]
            ELSE [os |-> job.os, jobs |-> 0, stepCount |-> 0,
                  minutesPerRun |-> 0, costPerRunUsd |-> 0]
        updated ==
            [os |-> existing.os,
             jobs |-> existing.jobs + 1,
             stepCount |-> existing.stepCount + job.steps,
             minutesPerRun |-> existing.minutesPerRun + job.minutes,
             costPerRunUsd |-> existing.costPerRunUsd + Mul(job.minutes, rate)]
    IN IF at # 0 THEN [map EXCEPT ![at] = updated] ELSE Append(map, updated)

RECURSIVE ByOsMap(_)
ByOsMap(jobList) ==
    IF jobList = <<>> THEN <<>>
    ELSE AddJob(ByOsMap(SubSeq(jobList, 1, Len(jobList) - 1)), jobList[Len(jobList)])

\* the emitted entry with every group counted as one job
EmitEntryOneJob(entry) ==
    [entry EXCEPT !.jobs = 1,
                  !.minutesPerRun = roundMoney(entry.minutesPerRun),
                  !.costPerRunUsd = roundMoney(entry.costPerRunUsd)]

\* the emitted entry: minutes and cost rounded to two decimals
EmitEntry(entry) ==
    [entry EXCEPT !.minutesPerRun = roundMoney(entry.minutesPerRun),
                  !.costPerRunUsd = roundMoney(entry.costPerRunUsd)]

aggregateByOs(jobList) ==
    LET map == ByOsMap(jobList)
    IN [i \in 1..Len(map) |-> EmitEntry(map[i])]

(***************************************************************************)
(* estimateWorkflowCost after the scan                                     *)
(***************************************************************************)
RECURSIVE SumOver(_, _)
SumOver(entries, field) ==
    IF entries = <<>> THEN 0
    ELSE SumOver(Tail(entries), field) + Head(entries)[field]

assumptions ==
    <<"Default base runtime is 2 minutes per job before step costs.",
      "Step runtime assumptions: uses=1.5m, run=3m.",
      "Hosted runner rates used: Linux $0.008/min, Windows $0.016/min, macOS $0.08/min.",
      "Matrix expansion is not modeled explicitly unless represented as separate jobs in YAML.">>

\* the decision with the comparison including equality
PolicyDecisionAtBudget(monthlyCostUsd, budgetUsd, policyMode) ==
    IF monthlyCostUsd >= budgetUsd THEN policyMode ELSE "pass"

\* the decision of line 196
PolicyDecision(monthlyCostUsd, budgetUsd, policyMode) ==
    IF monthlyCostUsd > budgetUsd THEN policyMode ELSE "pass"

\* the result with the monthly cost taken from the unrounded per-OS costs
EstimateResultUnroundedMonthly(in, entries) ==
    LET minutesPerRun == SumOver(entries, "minutesPerRun")
        costPerRunUsd == SumOver(entries, "costPerRunUsd")
        totalJobs == SumOver(entries, "jobs")
        totalSteps == SumOver(entries, "stepCount")
        fullCost == [i \in 1..Len(entries) |->
                        [c |-> Mul(entries[i].minutesPerRun, RateOf(entries[i].os))]]
        monthlyCostUsd == roundMoney(SumOver(fullCost, "c") * in.monthlyRuns)
    IN [summary |->
           [jobs |-> totalJobs,
            stepCount |-> totalSteps,
            minutesPerRun |-> roundMoney(minutesPerRun),
            costPerRunUsd |-> roundMoney(costPerRunUsd),
            monthlyRuns |-> in.monthlyRuns,
            monthlyCostUsd |-> monthlyCostUsd,
            budgetUsd |-> in.budgetUsd,
            policyMode |-> in.policyMode,
            policyDecision |-> PolicyDecision(monthlyCostUsd, in.budgetUsd, in.policyMode)],
        byOs |-> entries,
        assumptions |-> assumptions]

\* the result with the per-run cost priced at the linux rate throughout
EstimateResultLinuxRate(in, entries) ==
    LET minutesPerRun == SumOver(entries, "minutesPerRun")
        costPerRunUsd == SumOver(entries, "costPerRunUsd")
        totalJobs == SumOver(entries, "jobs")
        totalSteps == SumOver(entries, "stepCount")
        monthlyCostUsd == roundMoney(costPerRunUsd * in.monthlyRuns)
    IN [summary |->
           [jobs |-> totalJobs,
            stepCount |-> totalSteps,
            minutesPerRun |-> roundMoney(minutesPerRun),
            costPerRunUsd |-> roundMoney(Mul(minutesPerRun, OS_RATE_PER_MINUTE_USD.linux)),
            monthlyRuns |-> in.monthlyRuns,
            monthlyCostUsd |-> monthlyCostUsd,
            budgetUsd |-> in.budgetUsd,
            policyMode |-> in.policyMode,
            policyDecision |-> PolicyDecision(monthlyCostUsd, in.budgetUsd, in.policyMode)],
        byOs |-> entries,
        assumptions |-> assumptions]

EstimateResult(in, entries) ==
    LET minutesPerRun == SumOver(entries, "minutesPerRun")
        costPerRunUsd == SumOver(entries, "costPerRunUsd")
        totalJobs == SumOver(entries, "jobs")
        totalSteps == SumOver(entries, "stepCount")
        monthlyCostUsd == roundMoney(costPerRunUsd * in.monthlyRuns)
    IN [summary |->
           [jobs |-> totalJobs,
            stepCount |-> totalSteps,
            minutesPerRun |-> roundMoney(minutesPerRun),
            costPerRunUsd |-> roundMoney(costPerRunUsd),
            monthlyRuns |-> in.monthlyRuns,
            monthlyCostUsd |-> monthlyCostUsd,
            budgetUsd |-> in.budgetUsd,
            policyMode |-> in.policyMode,
            policyDecision |-> PolicyDecision(monthlyCostUsd, in.budgetUsd, in.policyMode)],
        byOs |-> entries,
        assumptions |-> assumptions]

NoResult ==
    [summary |->
        [jobs |-> 0, stepCount |-> 0, minutesPerRun |-> 0, costPerRunUsd |-> 0,
         monthlyRuns |-> 0, monthlyCostUsd |-> 0, budgetUsd |-> 0,
         policyMode |-> "", policyDecision |-> ""],
     byOs |-> <<>>,
     assumptions |-> <<>>]

(***************************************************************************)
(* Inputs of the model                                                     *)
(***************************************************************************)
RECURSIVE Repeat(_, _)
Repeat(s, n) ==
    IF n = 0 THEN ""
    ELSE LET half == Repeat(s, n \div 2)
         IN half \o half \o (IF n % 2 = 1 THEN s ELSE "")

RECURSIVE JoinLines(_)
JoinLines(ls) ==
    IF ls = <<>> THEN ""
    ELSE IF Len(ls) = 1 THEN ls[1]
    ELSE ls[1] \o "\n" \o JoinLines(Tail(ls))

\* the lines generated workflow texts are built from
LineChoices ==
    {"jobs:",
     "  build:",
     "    runs-on: windows-latest",
     "    runs-on: macos-14",
     "      - uses: actions/checkout@v4",
     "      - run: npm test",
     "    steps:"}

\* what a generated text starts with
Preambles == {"jobs:", "name: CI"}

GeneratedTexts ==
    {JoinLines(<<pre>> \o body) :
        pre \in Preambles,
        body \in UNION {[1..n -> LineChoices] : n \in 0..MaxLines}}

RECURSIVE Flatten(_)
Flatten(seqs) ==
    IF seqs = <<>> THEN <<>> ELSE Head(seqs) \o Flatten(Tail(seqs))

\* the runs-on lines and the step lines a generated job is built from
RunsOnChoices ==
    {<<>>, <<"    runs-on: windows-latest">>, <<"    runs-on: macos-14">>}

StepBlocks ==
    {<<>>,
     <<"      - uses: actions/checkout@v4">>,
     <<"      - run: npm test">>,
     <<"      - uses: actions/checkout@v4", "      - run: npm test">>,
     <<"      - uses: actions/checkout@v4", "      - uses: actions/setup-node@v4",
       "      - run: npm test">>}

JobBlocks ==
    {<<"  build:">> \o runsOn \o <<"    steps:">> \o steps :
        runsOn \in RunsOnChoices, steps \in StepBlocks}

\* a jobs marker followed by 1..MaxJobs jobs
JobTexts ==
    {JoinLines(<<"jobs:">> \o Flatten(blocks)) :
        blocks \in UNION {[1..n -> JobBlocks] : n \in 1..MaxJobs}}

\* the workflow of estimator.test.ts
TestWorkflow ==
    JoinLines(<<"", "name: CI", "on: [push, pull_request]", "jobs:",
                "  build:", "    runs-on: ubuntu-latest", "    steps:",
                "      - uses: actions/checkout@v4", "      - run: npm ci",
                "      - run: npm test",
                "  windows:", "    runs-on: windows-latest", "    steps:",
                "      - uses: actions/checkout@v4", "      - run: npm test", "">>)

\* scenario A: one job, one uses step and one run step
ScenarioA ==
    JoinLines(<<"jobs:", "  build:", "    runs-on: ubuntu-latest", "    steps:",
                "      - uses: actions/checkout@v4", "      - run: npm test">>)

\* scenario B: a linux job with two uses and one run, a windows job with one uses
ScenarioB ==
    JoinLines(<<"jobs:", "  build:", "    runs-on: ubuntu-latest", "    steps:",
                "      - uses: actions/checkout@v4", "      - uses: actions/setup-node@v4",
                "      - run: npm test",
                "  win:", "    runs-on: windows-latest", "    steps:",
                "      - uses: actions/checkout@v4">>)

\* three runner systems, linux twice, CRLF line ends, comments, blank lines
MixedWorkflow ==
    "name: CI # jobs:\r\n  early:\r\n      - run: x\r\njobs :\r\n\r\n"
    \o "      - run: orphan\r\n    runs-on: macos-14\r\n"
    \o "  mac:\r\n    runs-on: [self-hosted, MacOS]\r\n      - run: make # all\r\n"
    \o "  win_1:  \r\n    runs-on : Windows-2022\r\n      -  uses : a/b@v1\r\n"
    \o "  lin:\r\n    runs-on: ubuntu-22.04\r\n    runs-on:\r\n      -uses: a\r\n"
    \o "  mac-2:\r\n    runs-on: macos-14 # runs-on: windows\r\n       - run: deep\r\n"
    \o "  lin2: # last\r\n      - run: a\r\n      - run: b\r\n      - uses: c\r\n"

\* lines indented with tabs, and with one space more or less than 2, 4 and 6
TabbedWorkflow ==
    "jobs:\n\t\tbuild:\n\t\t\t\truns-on: windows-latest\n\t\t\t\t\t\t- run: npm test\n"
    \o "   deep:\n build:\n  test:\n     runs-on: macos-14\n   runs-on: macos-14\n"
    \o "       - run: a\n     - uses: b\n \t   \t- uses: c\n"

\* runs-on values naming two systems, in either case, and jobs with two
\* runs-on lines or none
PrecedenceWorkflow ==
    "jobs:\n  both:\n    runs-on: [mac-mini, WINDOWS-2022]\n"
    \o "  order:\n    runs-on: Windows-on-MacOS\n"
    \o "  last:\n    runs-on: windows-latest\n    runs-on: ubuntu-latest\n"
    \o "  mac:\n    runs-on: MAC-mini\n"
    \o "  late:\n    runs-on: ubuntu\n      - run: x\n    runs-on: iMac\n"
    \o "  none:\n      - run: x\n"

SampleTexts ==
    {TestWorkflow, ScenarioA, ScenarioB, MixedWorkflow, TabbedWorkflow, PrecedenceWorkflow,
     "name: CI", "jobs:", "jobs:\n    runs-on: windows-latest\n      - run: x"}

Payload(w, r, b, m) ==
    [workflowYaml |-> w, monthlyRuns |-> r, budgetUsd |-> b, policyMode |-> m]

\* raw monthlyRuns and budgetUsd of the requests that carry a sample text
SampleRuns == {JsNumber(Fin(1000)), JsNumber(Fin(500000)), JsString("420")}
SampleBudgets == {JsNumber(Fin(20)), JsNumber(Fin(20000)), JsNumber(Fin(40000)), JsString("60")}
SampleModes == {JsString("warn"), JsString("block")}

\* requests the sanitizer rejects
RejectedPayloads ==
    {Payload(JsString(""), JsNumber(Fin(200000)), JsNumber(Fin(20000)), JsString("warn")),
     Payload(JsString("jobs:\n  a:\n    runs-on: ubuntu-latest"),
             JsNumber(Fin(0 - 1000)), JsNumber(Fin(20000)), JsString("warn")),
     Payload(JsString("jobs:\n  a:\n    runs-on: ubuntu-latest"),
             JsNumber(Fin(100000)), JsNumber(NaN), JsString("warn")),
     Payload(JsString("jobs:\n  a:\n    runs-on: ubuntu-latest"),
             JsNumber(Fin(100000)), JsNumber(Fin(20000)), JsString("noop"))}

ScanPayloads ==
    {Payload(JsString(t), JsNumber(Fin(500000)), JsNumber(Fin(10000)), JsString("warn")) :
        t \in GeneratedTexts}
    \cup {Payload(JsString(t), JsString("1000"), JsNumber(Fin(40000)), JsString("block")) :
        t \in JobTexts}
    \cup {Payload(JsString(t), r, b, m) :
        t \in SampleTexts, r \in SampleRuns, b \in SampleBudgets, m \in SampleModes}
    \cup RejectedPayloads

\* raw fields of the requests that exercise the sanitizer
RawWorkflows ==
    {JsUndefined, JsNumber(Fin(5000)), JsString(""), JsString(" \n\t "),
     JsString("\n  jobs:\n  build:\n      - run: x\n  "),
     JsString(ScenarioB), JsString(MixedWorkflow)}

RawRuns ==
    {JsUndefined, JsNull, JsNumber(NaN), JsNumber(PosInfinity),
     JsNumber(Fin(0 - 1000)), JsNumber(Fin(0)), JsNumber(Fin(400)), JsNumber(Fin(500)),
     JsNumber(Fin(2500)), JsNumber(Fin(500000)), JsNumber(Fin(1000000000)),
     JsNumber(Fin(1000000400)),
     JsString("420"), JsString("0.25"), JsString(" 12abc"), JsString("abc"), JsString("")}

RawBudgets ==
    {JsUndefined, JsNumber(NaN), JsNumber(NegInfinity),
     JsNumber(Fin(0 - 10)), JsNumber(Fin(0)), JsNumber(Fin(4)), JsNumber(Fin(5)),
     JsNumber(Fin(19995)), JsNumber(Fin(40000)), JsNumber(Fin(1000000000)),
     JsNumber(Fin(1000000001)),
     JsString("60"), JsString("0.004"), JsString("12.345 USD"), JsString("$5"),
     JsString("Infinity")}

RawModes ==
    {JsUndefined, JsNumber(Fin(1000)), JsString("warn"), JsString("block"),
     JsString(" Warn\n"), JsString("BLOCK"), JsString("noop"), JsString(""),
     JsString("w arn")}

\* texts at the length limit: 100,000 characters, one more, and 100,000
\* characters inside white space
LongWorkflows ==
    {JsString(Repeat("x", MaxWorkflowChars)),
     JsString(Repeat("x", MaxWorkflowChars + 1)),
     JsString(" " \o Repeat("x", MaxWorkflowChars) \o "\n"),
     JsString("jobs:\n  a:\n#" \o Repeat("x", MaxWorkflowChars - 12)),
     JsString("jobs:\n  a:\n#" \o Repeat("x", MaxWorkflowChars - 11))}

SanitizePayloads ==
    {Payload(w, r, b, m) :
        w \in RawWorkflows, r \in RawRuns, b \in RawBudgets, m \in RawModes}
    \cup {Payload(w, r, JsNumber(Fin(40000)), JsString("warn")) :
        w \in LongWorkflows, r \in {JsNumber(Fin(500000)), JsNumber(NaN)}}

(***************************************************************************)
(* workflow-import.ts: the URL of the workflow                             *)
(***************************************************************************)
\* String.prototype.endsWith
EndsWith(s, suffix) ==
    Len(s) >= Len(suffix) /\ Substring(s, Len(s) - Len(suffix) + 1, Len(s)) = suffix

\* last index of the character in s, 0 if it does not occur
LastIndexOf(s, c) ==
    IF \E j \in 1..Len(s) : CharAt(s, j) = c
    THEN CHOOSE j \in 1..Len(s) :
             CharAt(s, j) = c /\ \A k \in (j + 1)..Len(s) : CharAt(s, k) # c
    ELSE 0

\* String.prototype.split on one character
RECURSIVE SplitOn(_, _)
SplitOn(s, c) ==
    LET at == FindSet(s, 1, {c})
    IN IF at > Len(s) THEN <<s>>
       ELSE <<Substring(s, 1, at - 1)>> \o SplitOn(Substring(s, at + 1, Len(s)), c)

\* Array.prototype.join
RECURSIVE Join(_, _)
Join(parts, c) ==
    IF parts = <<>> THEN ""
    ELSE IF Len(parts) = 1 THEN parts[1]
    ELSE parts[1] \o c \o Join(Tail(parts), c)

\* Array.prototype.filter(Boolean) on strings: the non-empty ones
RECURSIVE FilterNonEmpty(_)
FilterNonEmpty(parts) ==
    IF parts = <<>> THEN <<>>
    ELSE IF Head(parts) = "" THEN FilterNonEmpty(Tail(parts))
    ELSE <<Head(parts)>> \o FilterNonEmpty(Tail(parts))

\* s with every backslash replaced by a slash
RECURSIVE SlashesOnly(_)
SlashesOnly(s) ==
    IF s = "" THEN ""
    ELSE IF Len(s) = 1 THEN (IF s = "\\" THEN "/" ELSE s)
    ELSE LET half == Len(s) \div 2
         IN SlashesOnly(Substring(s, 1, half)) \o SlashesOnly(Substring(s, half + 1, Len(s)))

\* The URL parser of `new URL(input)` without a base, for inputs of the shape
\* scheme:[//][userinfo@]host[:port][/path][?query][#fragment] written in
\* ASCII without percent escapes.  Schemes other than http and https only
\* report their protocol.
UrlFailure ==
    [ok |-> FALSE, protocol |-> "", userinfo |-> "", hostname |-> "", port |-> "",
     pathname |-> "", search |-> "", hash |-> ""]

SchemeChars == LowerLetters \cup UpperLetters \cup DigitChars \cup {"+", "-", "."}

\* code points a host may not hold
ForbiddenHostChars == {" ", "<", ">", "[", "]", "^", "|", "%", "\t", "\n", "\r"}

DefaultPort == [http |-> "80", https |-> "443"]

\* the largest port number
MaxPort == 65535

\* the path state of the parser: "." segments dropped, ".." segments drop
\* the segment before them, a trailing dot segment leaves an empty last segment
RECURSIVE DotSegments(_, _)
DotSegments(done, todo) ==
    IF todo = <<>> THEN done
    ELSE LET seg == Head(todo)
             last == Len(todo) = 1
             popped == IF done = <<>> THEN <<>> ELSE SubSeq(done, 1, Len(done) - 1)
         IN IF seg = ".."
            THEN DotSegments(IF last THEN Append(popped, "") ELSE popped, Tail(todo))
            ELSE IF seg = "."
            THEN DotSegments(IF last THEN Append(done, "") ELSE done, Tail(todo))
            ELSE DotSegments(Append(done, seg), Tail(todo))

\* pathname of a special URL from the text between the authority and the query
NormalizePath(rawPath) ==
    IF rawPath = "" THEN "/"
    ELSE "/" \o Join(DotSegments(<<>>, Tail(SplitOn(SlashesOnly(rawPath), "/"))), "/")

\* query state and fragment state: rest is the input from the first "?" or "#"
QueryState(scheme, userinfo, host, portStr, pathname, rest) ==
    LET hashAt == FindSet(rest, 1, {"#"})
    IN [ok |-> TRUE,
        protocol |-> scheme \o ":",
        userinfo |-> userinfo,
        hostname |-> host,
        port |-> IF portStr # "" /\ DigitsVal(portStr) = DigitsVal(DefaultPort[scheme])
                 THEN "" ELSE portStr,
        pathname |-> pathname,
        search |-> Substring(rest, 1, hashAt - 1),
        hash |-> Substring(rest, hashAt, Len(rest))]

\* the host and the port are validated; path state on the input after them
PathState(scheme, userinfo, host, portStr, tail) ==
    IF \/ host = ""
       \/ \E j \in 1..Len(host) : CharAt(host, j) \in ForbiddenHostChars
       \/ \E j \in 1..Len(portStr) : CharAt(portStr, j) \notin DigitChars
       \/ Len(portStr) > 5
       \/ DigitsVal(portStr) > MaxPort
    THEN UrlFailure
    ELSE LET q == FindSet(tail, 1, {"?", "#"})
         IN QueryState(scheme, userinfo, host, portStr,
                       NormalizePath(Substring(tail, 1, q - 1)),
                       Substring(tail, q, Len(tail)))

\* host state and port state: the host is lowercased, the port follows ":"
PortState(scheme, userinfo, hostport, tail) ==
    LET pcolon == FindSet(hostport, 1, {":"})
    IN PathState(scheme, userinfo,
                 ToLowerCase(Substring(hostport, 1, pcolon - 1)),
                 Substring(hostport, pcolon + 1, Len(hostport)),
                 tail)

\* authority state: what precedes the last "@" is the userinfo
HostState(scheme, authority, tail) ==
    LET at == LastIndexOf(authority, "@")
    IN PortState(scheme,
                 Substring(authority, 1, at - 1),
                 Substring(authority, at + 1, Len(authority)),
                 tail)

\* the authority ends at the first "/", "\", "?" or "#"
AuthorityState(scheme, text) ==
    LET e == FindSet(text, 1, {"/", "\\", "?", "#"})
    IN HostState(scheme, Substring(text, 1, e - 1), Substring(text, e, Len(text)))

\* scheme state; a special scheme is followed by any number of slashes and
\* backslashes, then the authority
SchemeState(scheme, hasColon, rest) ==
    IF \/ ~hasColon
       \/ scheme = ""
       \/ CharAt(scheme, 1) \notin LowerLetters
       \/ \E j \in 1..Len(scheme) : CharAt(scheme, j) \notin SchemeChars
    THEN UrlFailure
    ELSE IF scheme \notin DOMAIN DefaultPort
    THEN [UrlFailure EXCEPT !.ok = TRUE, !.protocol = scheme \o ":"]
    ELSE LET a == SkipSet(rest, 1, {"/", "\\"})
         IN AuthorityState(scheme, Substring(rest, a, Len(rest)))

ParseUrl(url) ==
    LET colon == FindSet(url, 1, {":"})
    IN SchemeState(ToLowerCase(Substring(url, 1, colon - 1)),
                   colon <= Len(url),
                   Substring(url, colon + 1, Len(url)))

\* URL.prototype.toString: the serialized URL
UrlToString(u) ==
    u.protocol \o "//"
      \o (IF u.userinfo # "" THEN u.userinfo \o "@" ELSE "")
      \o u.hostname
      \o (IF u.port # "" THEN ":" \o u.port ELSE "")
      \o u.pathname \o u.search \o u.hash

\* longest workflowUrl sanitizeWorkflowUrl lets through
MaxUrlChars == 2048

NoUrl == [error |-> "none", url |-> ""]

\* sanitizeWorkflowUrl: lines 5-11
sanitizeWorkflowUrl(raw) ==
    LET workflowUrl == IF raw.type = "string" THEN Trim(raw.str) ELSE ""
    IN IF workflowUrl = "" \/ Len(workflowUrl) > MaxUrlChars
       THEN [error |-> "invalid_workflow_url", url |-> ""]
       ELSE [error |-> "none", url |-> workflowUrl]

\* the test of assertYamlPath: /\.ya?ml$/i
IsYamlPath(pathname) ==
    LET from == IF Len(pathname) > 5 THEN Len(pathname) - 4 ELSE 1
        lower == ToLowerCase(Substring(pathname, from, Len(pathname)))
    IN EndsWith(lower, ".yml") \/ EndsWith(lower, ".yaml")

\* lines 41-54: the path of a github.com URL
ResolveSegments(segments) ==
    LET fileParts == SubSeq(segments, 5, Len(segments))
    IN IF Len(segments) < 6
       THEN [error |-> "invalid_workflow_path", url |-> ""]
       ELSE IF \/ segments[3] \notin {"blob", "raw"}
               \/ segments[1] = "" \/ segments[2] = "" \/ segments[4] = ""
               \/ Len(fileParts) = 0
       THEN [error |-> "invalid_workflow_path", url |-> ""]
       ELSE IF ~IsYamlPath(Join(fileParts, "/"))
       THEN [error |-> "invalid_workflow_path", url |-> ""]
       ELSE [error |-> "none",
             url |-> "https://raw.githubusercontent.com/" \o segments[1] \o "/"
                       \o segments[2] \o "/" \o segments[4] \o "/" \o Join(fileParts, "/")]

\* ResolveParsed answering for any https host
ResolveParsedAnyHost(parsed) ==
    IF ~parsed.ok \/ parsed.protocol # "https:"
    THEN [error |-> "invalid_workflow_url", url |-> ""]
    ELSE IF ToLowerCase(parsed.hostname) # "github.com"
    THEN IF IsYamlPath(parsed.pathname)
         THEN [error |-> "none", url |-> UrlToString(parsed)]
         ELSE [error |-> "invalid_workflow_path", url |-> ""]
    ELSE ResolveSegments(FilterNonEmpty(SplitOn(parsed.pathname, "/")))

\* lines 26-39: the protocol and the host of the parsed URL
ResolveParsed(parsed) ==
    LET host == ToLowerCase(parsed.hostname)
    IN IF ~parsed.ok \/ parsed.protocol # "https:"
       THEN [error |-> "invalid_workflow_url", url |-> ""]
       ELSE IF host = "raw.githubusercontent.com"
       THEN IF IsYamlPath(parsed.pathname)
            THEN [error |-> "none", url |-> UrlToString(parsed)]
            ELSE [error |-> "invalid_workflow_path", url |-> ""]
       ELSE IF host # "github.com"
       THEN [error |-> "invalid_workflow_host", url |-> ""]
       ELSE ResolveSegments(FilterNonEmpty(SplitOn(parsed.pathname, "/")))

\* resolveRawWorkflowUrl: lines 19-55
resolveRawWorkflowUrl(workflowUrl) == ResolveParsed(ParseUrl(workflowUrl))

(***************************************************************************)
(* workflow-import.ts: fetchWorkflowYaml                                   *)
(***************************************************************************)
MAX_WORKFLOW_YAML_BYTES == 100000

\* line 2
WORKFLOW_FETCH_TIMEOUT_MS == 8000

\* characters of the model's texts that UTF-8 encodes in two and in three
\* bytes; every other character of these texts is ASCII
TwoByteChars == {"é"}
ThreeByteChars == {"€"}

\* Buffer.byteLength(text, "utf8")
ByteLength(text) ==
    Len(text)
      + Cardinality({j \in 1..Len(text) : CharAt(text, j) \in TwoByteChars})
      + 2 * Cardinality({j \in 1..Len(text) : CharAt(text, j) \in ThreeByteChars})

\* the regex /^prefix[a-z0-9_]+$/ of lines 88 and of safeErrorCode
MatchesCode(prefix, message) ==
    /\ StartsWithAt(message, 1, prefix)
    /\ Len(message) > Len(prefix)
    /\ \A j \in (Len(prefix) + 1)..Len(message) :
           CharAt(message, j) \in LowerLetters \cup DigitChars \cup {"_"}

\* an Error object: its name and its message
JsError(name, message) == [name |-> name, message |-> message]

NoError == JsError("", "")

\* the catch clause of lines 84-91: the message of the Error it throws
CatchCode(caught) ==
    IF caught.name = "AbortError" THEN "workflow_fetch_timeout"
    ELSE IF MatchesCode("workflow_", caught.message) THEN caught.message
    ELSE "workflow_fetch_failed"

\* the checks of lines 76-83 with the size taken in characters
BodyErrorByLength(text) ==
    IF Trim(text) = "" THEN JsError("Error", "workflow_empty")
    ELSE IF Len(text) > MAX_WORKFLOW_YAML_BYTES THEN JsError("Error", "workflow_too_large")
    ELSE NoError

\* the checks of lines 76-83 on the text of the response: the Error thrown,
\* NoError if the text is returned
BodyError(text) ==
    IF Trim(text) = "" THEN JsError("Error", "workflow_empty")
    ELSE IF ByteLength(text) > MAX_WORKFLOW_YAML_BYTES
    THEN JsError("Error", "workflow_too_large")
    ELSE NoError

\* what fetch and Response.text reject with: a TypeError for a network or
\* protocol failure, and once the signal they were given is aborted the
\* AbortError of the signal
Rejections(isAborted) ==
    IF isAborted
    THEN {JsError("AbortError", "This operation was aborted")}
    ELSE {JsError("TypeError", "fetch failed"), JsError("TypeError", "terminated")}

(***************************************************************************)
(* The inputs of the workflow import                                       *)
(***************************************************************************)
\* most requests the server handles in a behaviour
MaxRequests == 2

\* most writes of a file that fail in a behaviour
MaxFailures == 1

\* most path segments after the ref in a generated github.com URL
MaxFileParts == 2

\* the milliseconds between two looks at the clock
TickMs == 4000

PathParts == {"workflows", "test.yml", "ci.yaml", "CI.YML", "notes.txt"}

\* file paths of 0..MaxFileParts segments, each with its leading slash
FilePaths ==
    {Join([j \in 1..Len(parts) |-> "/" \o parts[j]], "") :
        parts \in UNION {[1..n -> PathParts] : n \in 0..MaxFileParts}}

GithubAuthorities == {"github.com", "GitHub.com", "github.com:443"}

UrlModes == {"blob", "raw", "tree"}

UrlSuffixes == {"", "?plain=1", "#L3", "/"}

\* https URLs of github.com: /actions/checkout/<mode>/main<file path><suffix>
GithubUrls ==
    {"https://" \o a \o "/actions/checkout/" \o mode \o "/main" \o file \o suffix :
        a \in GithubAuthorities, mode \in UrlModes, file \in FilePaths, suffix \in UrlSuffixes}

UrlSchemes == {"https", "HTTPS", "http"}

\* authorities as written in a URL, each with the host it names
Authorities ==
    {[text |-> "github.com", host |-> "github.com"],
     [text |-> "raw.githubusercontent.com", host |-> "raw.githubusercontent.com"],
     [text |-> "RAW.GitHubUserContent.com", host |-> "raw.githubusercontent.com"],
     [text |-> "raw.githubusercontent.com:8443", host |-> "raw.githubusercontent.com"],
     [text |-> "user@raw.githubusercontent.com", host |-> "raw.githubusercontent.com"],
     [text |-> "raw.githubusercontent.com@evil.io", host |-> "evil.io"],
     [text |-> "example.com", host |-> "example.com"],
     [text |-> "github.com.evil.io", host |-> "github.com.evil.io"],
     [text |-> "gist.github.com", host |-> "gist.github.com"],
     [text |-> "github.com.", host |-> "github.com."]}

HostPaths ==
    {"", "/", "/workflow.yml", "/actions/checkout/main/.github/workflows/test.yml",
     "/actions/checkout/main/ci.YAML", "/actions/checkout/main/readme.md",
     "/actions/checkout/blob/main/.github/workflows/test.yml",
     "/actions/checkout/blob/main/a/../../../../../etc/ci.yml"}

HostUrls ==
    {s \o "://" \o a.text \o p : s \in UrlSchemes, a \in Authorities, p \in HostPaths}

\* the URL of workflow-import.test.ts and URLs that are none
TestUrl == "https://github.com/actions/checkout/blob/main/.github/workflows/test.yml"

OtherUrls ==
    {JsUndefined, JsNumber(Fin(5000)), JsString(""), JsString("   "),
     JsString(TestUrl), JsString("  " \o TestUrl \o "\n"),
     JsString("not a url"), JsString("github.com/actions/checkout/blob/main/a/test.yml"),
     JsString("//github.com/actions/checkout/blob/main/a/test.yml"),
     JsString("https:github.com/actions/checkout/raw/main/a/test.yml"),
     JsString("https:///workflow.yml"), JsString("https://"),
     JsString("https://github.com:99999/actions/checkout/blob/main/a/test.yml"),
     JsString("ftp://github.com/actions/checkout/blob/main/a/test.yml"),
     JsString("javascript:alert(1)"),
     JsString("https://github.com/actions/checkout/tree/main/a/test.yml"),
     JsString("https://github.com/actions/checkout/blob/main/" \o Repeat("a", MaxUrlChars) \o ".yml"),
     JsString("https://example.com/" \o Repeat("a", MaxUrlChars - 24) \o ".yml"),
     JsString("https://example.com/" \o Repeat("a", MaxUrlChars - 23) \o ".yml")}

\* a small workflow text, as the test's stub serves it
SmallYaml == "name: CI\non: [push]\n"

\* texts at the limits of lines 76-83
RemoteTexts ==
    {"", " \n\t ", SmallYaml,
     Repeat("x", MAX_WORKFLOW_YAML_BYTES),
     Repeat("x", MAX_WORKFLOW_YAML_BYTES + 1),
     "\n" \o Repeat("x", MAX_WORKFLOW_YAML_BYTES - 1) \o "\n",
     Repeat("é", MAX_WORKFLOW_YAML_BYTES \div 2),
     "jobs:" \o Repeat("é", MAX_WORKFLOW_YAML_BYTES \div 2 - 2),
     Repeat("€", MAX_WORKFLOW_YAML_BYTES \div 3) \o "€"}

\* URLs whose fetch is followed through every remote text
FetchedUrls ==
    {TestUrl, "https://raw.githubusercontent.com/actions/checkout/main/.github/workflows/test.yml"}

ImportPayload(u) == [workflowUrl |-> u]

\* a request: what it carries and what the remote host holds
ImportRequests ==
    {[body |-> ImportPayload(JsString(u)), remote |-> SmallYaml] : u \in GithubUrls \cup HostUrls}
      \cup {[body |-> ImportPayload(u), remote |-> SmallYaml] : u \in OtherUrls}
      \cup {[body |-> ImportPayload(JsString(u)), remote |-> t] : u \in FetchedUrls, t \in RemoteTexts}

(***************************************************************************)
(* The pipeline as a state machine                                         *)
(***************************************************************************)
VARIABLES
    pc,          \* "sanitize", "parse", "scan", "aggregate", "estimate", "done", "rejected"
    payload,     \* the raw request fields
    error,       \* the code sanitizeEstimateInput threw, "none" if it returned
    input,       \* the EstimateInput
    lines,       \* parseJobsAndSteps: the split text
    lineNo,      \* index in lines of rawLine
    line,        \* the loop body's line: rawLine without its comment
    trimmed,     \* the loop body's trimmed
    inJobs,
    currentJob,  \* NullJob for null
    jobs,
    byOs,        \* what aggregateByOs returned
    result       \* the EstimateResult

\* what the callers of the pipeline keep
VARIABLES
    calls,       \* the number of the call of the pipeline that is running
    earlier      \* the pairs <<EstimateInput, EstimateResult>> of the calls before it

\* the workflow import: sanitizeWorkflowUrl, resolveRawWorkflowUrl, fetchWorkflowYaml
VARIABLES
    ipc,             \* "idle", "url", "resolve", "call", "fetch", "text", "resolved", "failed"
    workflowUrl,     \* what sanitizeWorkflowUrl returned
    rawWorkflowUrl,  \* what resolveRawWorkflowUrl returned
    requestedUrl,    \* the URL fetchFn was called with
    remote,          \* the text the remote host holds at that URL
    aborted,         \* abortController.signal.aborted
    response,        \* what fetchFn resolved with
    thrown,          \* the message of the Error an import function threw, "none" if none
    fetchedYaml,     \* what fetchWorkflowYaml resolved with
    timeout,         \* the timer of fetchWorkflowYaml: "unset", "armed", "fired", "cleared"
    elapsed          \* milliseconds since the timer was set

\* the request handler of the server
VARIABLES
    route,           \* "estimate", "import", or "none" when the functions are called directly
    status,          \* the status of the response, 0 before it is sent
    responseError    \* the error field of the response

\* the browser client
VARIABLES
    activeSessionId,    \* the session of the last estimate, 0 for null
    exportUnlocked,
    proofFormHidden,    \* proofForm.hidden
    billingStatus,      \* the text of the billing status element
    submitDisabled,     \* submitBtn.disabled
    checkoutDisabled,   \* checkoutBtn.disabled
    startPaidDisabled,  \* startPaidBtn.disabled
    proofDisabled,      \* proofBtn.disabled
    exportDisabled,     \* exportBtn.disabled
    est,                \* the submit handler: "idle", or "pending" at its await
    cko,                \* openCheckout: "idle", at the await of its "estimate" or of its "checkout"
    prf,                \* the proof handler: "idle" or "pending"
    exp,                \* the export handler: "idle" or "pending"
    ckoSession,         \* the sessionId local to openCheckout
    prfSession,         \* the sessionId local to the proof handler
    expSession,         \* the sessionId local to the export handler
    sessions,           \* the number of sessions the server has created
    accepted            \* the sessions the server has accepted a payment proof for

\* the store of the server and the requests it is handling
VARIABLES
    state,            \* the in-memory state: sessions by sessionId, and the events
    stateWriteQueue,  \* the writes of state.json chained by saveState, oldest first
    eventWriteQueue,  \* the appends to events.jsonl chained by appendEvent, oldest first
    stateFile,        \* what state.json holds
    eventsFile,       \* the lines of events.jsonl
    handlers          \* the calls of the request handler, each at one of its awaits

storeVars == <<state, stateWriteQueue, eventWriteQueue, stateFile, eventsFile, handlers>>

cliVars ==
    <<activeSessionId, exportUnlocked, proofFormHidden, billingStatus, submitDisabled,
      checkoutDisabled, startPaidDisabled, proofDisabled, exportDisabled, est, cko, prf, exp,
      ckoSession, prfSession, expSession, sessions, accepted>>

impVars ==
    <<ipc, workflowUrl, rawWorkflowUrl, requestedUrl, remote, aborted, response, thrown,
      fetchedYaml, timeout, elapsed>>

srvVars == <<route, status, responseError>>

\* the state outside sanitizeEstimateInput and estimateWorkflowCost
extVars == <<calls, earlier, storeVars, impVars, srvVars, cliVars>>

vars == <<pc, payload, error, input, lines, lineNo, line, trimmed, inJobs, currentJob, jobs, byOs, result, extVars>>

NoResponse == [settled |-> FALSE, ok |-> FALSE, text |-> ""]

\* the state of lines 65-68
EmptyState == [sessions |-> <<>>, events |-> <<>>]

\* handler number h before its request has arrived
NoHandler ==
    [at |-> "idle", route |-> "", body |-> <<>>, status |-> 0, error |-> "",
     sessionId |-> "", awaited |-> {}, totals |-> <<>>]

\* the server listening on an empty data directory: loadState has written the
\* empty state and created the events file (lines 232-249)
StoreEmpty ==
    /\ state = EmptyState
    /\ stateWriteQueue = <<>>
    /\ eventWriteQueue = <<>>
    /\ stateFile = EmptyState
    /\ eventsFile = <<>>
    /\ handlers = [h \in 1..MaxRequests |-> NoHandler]

\* no import is running
ImportIdle ==
    /\ ipc = "idle"
    /\ workflowUrl = ""
    /\ rawWorkflowUrl = ""
    /\ requestedUrl = ""
    /\ remote = ""
    /\ aborted = FALSE
    /\ response = NoResponse
    /\ thrown = "none"
    /\ fetchedYaml = ""
    /\ timeout = "unset"
    /\ elapsed = 0

\* the functions are called without the server
ServerIdle ==
    /\ route = "none"
    /\ status = 0
    /\ responseError = ""

\* the page as loaded: lines 50-52 and 280-283
ClientLoaded ==
    /\ activeSessionId = 0
    /\ exportUnlocked = FALSE
    /\ proofFormHidden = TRUE
    /\ billingStatus = "Checkout not started."
    /\ submitDisabled = FALSE
    /\ checkoutDisabled = FALSE
    /\ startPaidDisabled = FALSE
    /\ proofDisabled = FALSE
    /\ exportDisabled = FALSE
    /\ est = "idle"
    /\ cko = "idle"
    /\ prf = "idle"
    /\ exp = "idle"
    /\ ckoSession = 0
    /\ prfSession = 0
    /\ expSession = 0
    /\ sessions = 0
    /\ accepted = {}

\* nothing has been called yet
ExtInit ==
    /\ calls = 1
    /\ earlier = {}
    /\ StoreEmpty
    /\ ImportIdle
    /\ ServerIdle
    /\ ClientLoaded

NullJob == [os |-> "null", steps |-> 0, minutes |-> 0]

scanVars == <<lines, lineNo, line, trimmed, inJobs, currentJob, jobs>>

estVars == <<pc, payload, error, input, scanVars, byOs, result>>

\* the locals of the pipeline before it is called
PipelineLocals ==
    /\ error = "none"
    /\ input = NoInput
    /\ lines = <<>>
    /\ lineNo = 0
    /\ line = ""
    /\ trimmed = ""
    /\ inJobs = FALSE
    /\ currentJob = NullJob
    /\ jobs = <<>>
    /\ byOs = <<>>
    /\ result = NoResult

\* the pipeline is not called
PipelineIdle == pc = "idle" /\ PipelineLocals

\* sanitizeEstimateInput is about to be called on one of the payloads
PipelineInit(payloads) ==
    /\ pc = "sanitize"
    /\ payload \in payloads
    /\ PipelineLocals

InitWith(payloads) ==
    /\ PipelineInit(payloads)
    /\ ExtInit

Init == InitWith(ScanPayloads)

\* the service calls sanitizeEstimateInput on the request body
Sanitize ==
    /\ pc = "sanitize"
    /\ LET r == sanitizeEstimateInput(payload)
       IN /\ error' = r.error
          /\ input' = r.input
          /\ pc' = IF r.error = "none" THEN "parse" ELSE "rejected"
    /\ UNCHANGED <<payload, scanVars, byOs, result, extVars>>

\* lines 67-69: the loop takes the line at index n, if there is one
ReadLine(ls, n) ==
    /\ lineNo' = n
    /\ line' = IF n <= Len(ls) THEN StripComment(ls[n]) ELSE ""
    /\ trimmed' = Trim(line')

\* the entry of parseJobsAndSteps with inJobs, currentJob and jobs kept from
\* the call before, as state shared between the calls would be
ParseStartKeepsState ==
    /\ pc = "parse"
    /\ lines' = SplitLines(input.workflowYaml)
    /\ ReadLine(lines', 1)
    /\ pc' = "scan"
    /\ UNCHANGED <<inJobs, currentJob, jobs>>
    /\ UNCHANGED <<payload, error, input, byOs, result, extVars>>

\* estimateWorkflowCost calls parseJobsAndSteps: lines 61-69
ParseStart ==
    /\ pc = "parse"
    /\ lines' = SplitLines(input.workflowYaml)
    /\ ReadLine(lines', 1)
    /\ inJobs' = FALSE
    /\ currentJob' = NullJob
    /\ jobs' = <<>>
    /\ pc' = "scan"
    /\ UNCHANGED <<payload, error, input, byOs, result, extVars>>

\* the loop body entered on every line but the last
AtLineStopsShort == pc = "scan" /\ lineNo < Len(lines)

\* the loop body runs on a line
AtLine == pc = "scan" /\ lineNo <= Len(lines)

\* continue: on to the next line
Continue ==
    /\ ReadLine(lines, lineNo + 1)
    /\ UNCHANGED <<pc, payload, error, input, lines, byOs, result, extVars>>

\* lines 71-74
ScanJobsMarker ==
    /\ AtLine
    /\ ~inJobs /\ IsJobsMarker(trimmed)
    /\ inJobs' = TRUE
    /\ UNCHANGED <<currentJob, jobs>>
    /\ Continue

\* lines 75-77
ScanSkip ==
    /\ AtLine
    /\ ~(~inJobs /\ IsJobsMarker(trimmed))
    /\ ~inJobs \/ trimmed = ""
    /\ UNCHANGED <<inJobs, currentJob, jobs>>
    /\ Continue

\* the loop body going on without the marker having been seen
InSectionUnmarked == AtLine /\ trimmed # ""

\* past lines 71-77
InSection == AtLine /\ inJobs /\ trimmed # ""

\* the header opening a job without the open one being pushed
ScanJobHeaderDropsOpen ==
    /\ InSection
    /\ IsJobHeader(line)
    /\ currentJob' = [os |-> "linux", steps |-> 0, minutes |-> BaseJobMinutes]
    /\ UNCHANGED <<inJobs, jobs>>
    /\ Continue

\* lines 79-86
ScanJobHeader ==
    /\ InSection
    /\ IsJobHeader(line)
    /\ jobs' = IF currentJob # NullJob THEN Append(jobs, currentJob) ELSE jobs
    /\ currentJob' = [os |-> "linux", steps |-> 0, minutes |-> BaseJobMinutes]
    /\ UNCHANGED inJobs
    /\ Continue

\* lines 88-90
ScanNoJob ==
    /\ InSection
    /\ currentJob = NullJob
    /\ ~IsJobHeader(line)
    /\ UNCHANGED <<inJobs, currentJob, jobs>>
    /\ Continue

\* past lines 79-90
InJob == InSection /\ currentJob # NullJob /\ ~IsJobHeader(line)

\* lines 92-96
ScanRunsOn ==
    /\ AtLine
    /\ IsRunsOn(line)
    /\ InJob
    /\ currentJob' = [currentJob EXCEPT !.os = parseRunsOn(RunsOnRest(line))]
    /\ UNCHANGED <<inJobs, jobs>>
    /\ Continue

\* lines 98-102
ScanUses ==
    /\ AtLine
    /\ IsUses(line)
    /\ InJob
    /\ ~IsRunsOn(line)
    /\ currentJob' = [currentJob EXCEPT !.steps = @ + 1, !.minutes = @ + STEP_MINUTES.uses]
    /\ UNCHANGED <<inJobs, jobs>>
    /\ Continue

\* the run step adding its minutes without counting the step
ScanRunUncounted ==
    /\ AtLine
    /\ IsRun(line)
    /\ InJob
    /\ ~IsRunsOn(line)
    /\ ~IsUses(line)
    /\ currentJob' = [currentJob EXCEPT !.minutes = @ + STEP_MINUTES.run]
    /\ UNCHANGED <<inJobs, jobs>>
    /\ Continue

\* lines 104-108
ScanRun ==
    /\ AtLine
    /\ IsRun(line)
    /\ InJob
    /\ ~IsRunsOn(line)
    /\ ~IsUses(line)
    /\ currentJob' = [currentJob EXCEPT !.steps = @ + 1, !.minutes = @ + STEP_MINUTES.run]
    /\ UNCHANGED <<inJobs, jobs>>
    /\ Continue

\* a line of the section that matches no pattern: the loop body falls through
ScanOther ==
    /\ InJob
    /\ ~IsRunsOn(line)
    /\ ~IsUses(line)
    /\ ~IsRun(line)
    /\ UNCHANGED <<inJobs, currentJob, jobs>>
    /\ Continue

\* the job list without the substitution of lines 116-118
FinishJobsNoFallback(jobList, current) ==
    IF current # NullJob THEN Append(jobList, current) ELSE jobList

\* the job list after lines 112-118
FinishJobs(jobList, current) ==
    LET pushed == IF current # NullJob THEN Append(jobList, current) ELSE jobList
    IN IF Len(pushed) = 0 THEN <<FallbackJob>> ELSE pushed

\* end of the loop: lines 112-120
ScanEnd ==
    /\ pc = "scan"
    /\ lineNo > Len(lines)
    /\ jobs' = FinishJobs(jobs, currentJob)
    /\ pc' = "aggregate"
    /\ UNCHANGED <<payload, error, input, lines, lineNo, line, trimmed, inJobs, currentJob, byOs, result, extVars>>

\* line 181
Aggregate ==
    /\ pc = "aggregate"
    /\ byOs' = aggregateByOs(jobs)
    /\ pc' = "estimate"
    /\ UNCHANGED <<payload, error, input, scanVars, result, extVars>>

\* lines 183-217
Estimate ==
    /\ pc = "estimate"
    /\ result' = EstimateResult(input, byOs)
    /\ pc' = "done"
    /\ UNCHANGED <<payload, error, input, scanVars, byOs, extVars>>

Next ==
    \/ Sanitize
    \/ ParseStart
    \/ ScanJobsMarker
    \/ ScanSkip
    \/ ScanJobHeader
    \/ ScanNoJob
    \/ ScanRunsOn
    \/ ScanUses
    \/ ScanRun
    \/ ScanOther
    \/ ScanEnd
    \/ Aggregate
    \/ Estimate

Spec == Init /\ [][Next]_vars

\* the same pipeline on the requests that exercise the sanitizer
SanitizeInit == InitWith(SanitizePayloads)

SanitizeSpec == SanitizeInit /\ [][Next]_vars

(***************************************************************************)
(* The pipeline called again and again                                     *)
(***************************************************************************)
\* the most calls one behaviour makes
MaxCalls == 3

\* the requests of the repeated calls
RepeatPayloads ==
    {Payload(JsString(ScenarioA), JsNumber(Fin(500000)), JsNumber(Fin(40000)), JsString("block")),
     Payload(JsString(ScenarioA), JsString("420"), JsNumber(Fin(20)), JsString("warn")),
     Payload(JsString(MixedWorkflow), JsNumber(Fin(500000)), JsNumber(Fin(40000)), JsString("block")),
     Payload(JsString("name: CI"), JsNumber(Fin(500000)), JsNumber(Fin(40000)), JsString("block")),
     Payload(JsString("jobs:\n    runs-on: windows-latest\n      - run: x"),
             JsNumber(Fin(500000)), JsNumber(Fin(40000)), JsString("block")),
     Payload(JsString("jobs:"), JsNumber(Fin(500000)), JsNumber(Fin(40000)), JsString("noop"))}

\* A call has returned or thrown and the caller makes the next one.  Both
\* functions are synchronous, so a call runs from entry to return before any
\* other code of the process runs; the locals of the call before are left as
\* they were and the new call sets its own.
Restart ==
    /\ pc \in {"done", "rejected"}
    /\ calls < MaxCalls
    /\ calls' = calls + 1
    /\ earlier' = IF pc = "done" THEN earlier \cup {<<input, result>>} ELSE earlier
    /\ payload' \in RepeatPayloads
    /\ pc' = "sanitize"
    /\ UNCHANGED <<error, input, scanVars, byOs, result, storeVars, impVars, srvVars, cliVars>>

RepeatNext == Next \/ Restart

RepeatSpec == InitWith(RepeatPayloads) /\ [][RepeatNext]_vars

(***************************************************************************)
(* The import as a state machine                                           *)
(***************************************************************************)
\* the handler of POST /api/workflow/import is entered with one of the requests
ImportStart(requests) ==
    /\ PipelineIdle
    /\ \E rq \in requests :
           /\ payload = rq.body
           /\ remote = rq.remote
    /\ ipc = "url"
    /\ workflowUrl = ""
    /\ rawWorkflowUrl = ""
    /\ requestedUrl = ""
    /\ aborted = FALSE
    /\ response = NoResponse
    /\ thrown = "none"
    /\ fetchedYaml = ""
    /\ timeout = "unset"
    /\ elapsed = 0

\* the import functions called on their own
ImportInit ==
    /\ ImportStart(ImportRequests)
    /\ calls = 1
    /\ earlier = {}
    /\ StoreEmpty
    /\ ServerIdle
    /\ ClientLoaded

\* line 354 of the server: sanitizeWorkflowUrl(body)
SanitizeUrl ==
    /\ ipc = "url"
    /\ LET r == sanitizeWorkflowUrl(payload.workflowUrl)
       IN /\ workflowUrl' = r.url
          /\ thrown' = r.error
          /\ ipc' = IF r.error = "none" THEN "resolve" ELSE "failed"
    /\ UNCHANGED <<rawWorkflowUrl, requestedUrl, remote, aborted, response, fetchedYaml,
                   timeout, elapsed>>
    /\ UNCHANGED <<estVars, calls, earlier, storeVars, srvVars, cliVars>>

\* line 355 of the server: resolveRawWorkflowUrl(workflowUrl)
ResolveUrl ==
    /\ ipc = "resolve"
    /\ LET r == resolveRawWorkflowUrl(workflowUrl)
       IN /\ rawWorkflowUrl' = r.url
          /\ thrown' = r.error
          /\ ipc' = IF r.error = "none" THEN "call" ELSE "failed"
    /\ UNCHANGED <<workflowUrl, requestedUrl, remote, aborted, response, fetchedYaml,
                   timeout, elapsed>>
    /\ UNCHANGED <<estVars, calls, earlier, storeVars, srvVars, cliVars>>

\* fetchWorkflowYaml, lines 58-70: the timer is set and fetchFn is called
\* with the URL it was given
FetchStart ==
    /\ ipc = "call"
    /\ requestedUrl' = rawWorkflowUrl
    /\ aborted' = FALSE
    /\ timeout' = "armed"
    /\ elapsed' = 0
    /\ ipc' = "fetch"
    /\ UNCHANGED <<workflowUrl, rawWorkflowUrl, remote, response, thrown, fetchedYaml>>
    /\ UNCHANGED <<estVars, calls, earlier, storeVars, srvVars, cliVars>>

\* time passes while the timer is set
Tick ==
    /\ timeout = "armed"
    /\ elapsed < WORKFLOW_FETCH_TIMEOUT_MS
    /\ elapsed' = elapsed + TickMs
    /\ UNCHANGED <<ipc, workflowUrl, rawWorkflowUrl, requestedUrl, remote, aborted, response,
                   thrown, fetchedYaml, timeout>>
    /\ UNCHANGED <<estVars, calls, earlier, storeVars, srvVars, cliVars>>

\* lines 59-61: the timer, set and not cleared, runs its callback once its
\* delay has passed
TimerFires ==
    /\ timeout = "armed"
    /\ elapsed >= WORKFLOW_FETCH_TIMEOUT_MS
    /\ aborted' = TRUE
    /\ timeout' = "fired"
    /\ UNCHANGED <<ipc, workflowUrl, rawWorkflowUrl, requestedUrl, remote, response, thrown,
                   fetchedYaml, elapsed>>
    /\ UNCHANGED <<estVars, calls, earlier, storeVars, srvVars, cliVars>>

\* the function throwing without a finally clause
ThrowKeepsTimer(caught) ==
    /\ thrown' = CatchCode(caught)
    /\ ipc' = "failed"
    /\ UNCHANGED timeout

\* lines 92-94: clearTimeout(timeout), which does nothing to a timer that fired
ClearTimeout == timeout' = IF timeout = "armed" THEN "cleared" ELSE timeout

\* the function throws: the catch clause decides the Error that leaves it,
\* the finally clause clears the timer
Throw(caught) ==
    /\ thrown' = CatchCode(caught)
    /\ ipc' = "failed"
    /\ ClearTimeout

\* line 64 resolves with a response; lines 71-73 throw if it is not OK
FetchResponds ==
    /\ ipc = "fetch"
    /\ ~aborted
    /\ \E ok \in BOOLEAN :
           /\ response' = [settled |-> TRUE, ok |-> ok, text |-> IF ok THEN remote ELSE "nope"]
           /\ IF ok
              THEN ipc' = "text" /\ UNCHANGED <<thrown, timeout>>
              ELSE Throw(JsError("Error", "workflow_fetch_failed"))
    /\ UNCHANGED <<workflowUrl, rawWorkflowUrl, requestedUrl, remote, aborted, fetchedYaml,
                   elapsed>>
    /\ UNCHANGED <<estVars, calls, earlier, storeVars, srvVars, cliVars>>

\* line 64 rejects
FetchRejects ==
    /\ ipc = "fetch"
    /\ \E caught \in Rejections(aborted) : Throw(caught)
    /\ UNCHANGED <<workflowUrl, rawWorkflowUrl, requestedUrl, remote, aborted, response,
                   fetchedYaml, elapsed>>
    /\ UNCHANGED <<estVars, calls, earlier, storeVars, srvVars, cliVars>>

\* line 75 resolves with the text; lines 76-83 check it and return it
TextResolves ==
    /\ ipc = "text"
    /\ ~aborted
    /\ LET problem == BodyError(response.text)
       IN IF problem = NoError
          THEN /\ fetchedYaml' = response.text
               /\ ipc' = "resolved"
               /\ ClearTimeout
               /\ UNCHANGED thrown
          ELSE /\ Throw(problem)
               /\ UNCHANGED fetchedYaml
    /\ UNCHANGED <<workflowUrl, rawWorkflowUrl, requestedUrl, remote, aborted, response,
                   elapsed>>
    /\ UNCHANGED <<estVars, calls, earlier, storeVars, srvVars, cliVars>>

\* line 75 rejects
TextRejects ==
    /\ ipc = "text"
    /\ \E caught \in Rejections(aborted) : Throw(caught)
    /\ UNCHANGED <<workflowUrl, rawWorkflowUrl, requestedUrl, remote, aborted, response,
                   fetchedYaml, elapsed>>
    /\ UNCHANGED <<estVars, calls, earlier, storeVars, srvVars, cliVars>>

ImportNext ==
    \/ SanitizeUrl
    \/ ResolveUrl
    \/ FetchStart
    \/ Tick
    \/ TimerFires
    \/ FetchResponds
    \/ FetchRejects
    \/ TextResolves
    \/ TextRejects

ImportSpec == ImportInit /\ [][ImportNext]_vars

(***************************************************************************)
(* The request handler of the server                                       *)
(***************************************************************************)
\* safeErrorCode knowing only the invalid_ codes
safeErrorCodeInvalidOnly(caught) ==
    IF MatchesCode("invalid_", caught.message) THEN caught.message ELSE "invalid_request"

\* safeErrorCode: lines 172-180 (everything thrown here is an Error)
safeErrorCode(caught) ==
    IF MatchesCode("invalid_", caught.message) \/ MatchesCode("workflow_", caught.message)
    THEN caught.message
    ELSE "invalid_request"

\* the catch clause of the handler, lines 435-442: status and error field
CatchReply(caught) ==
    LET code == safeErrorCode(caught)
    IN [status |-> IF code = "payload_too_large" THEN 413 ELSE 400, error |-> code]

\* the catch clause answering the one request of the server
Catch(caught) ==
    /\ status' = CatchReply(caught).status
    /\ responseError' = CatchReply(caught).error

\* requests to POST /api/estimate
ServerPayloads ==
    RepeatPayloads \cup RejectedPayloads
      \cup {Payload(JsUndefined, JsUndefined, JsUndefined, JsUndefined)}

\* requests to POST /api/workflow/import
ServerRequests ==
    {rq \in ImportRequests :
        \/ rq.body.workflowUrl \in OtherUrls
        \/ rq.body.workflowUrl \in {JsString(u) : u \in FetchedUrls}
        \/ rq.body.workflowUrl = JsString("https://example.com/workflow.yml")}

ServerInit ==
    /\ calls = 1
    /\ earlier = {}
    /\ StoreEmpty
    /\ status = 0
    /\ responseError = ""
    /\ ClientLoaded
    /\ \/ route = "estimate" /\ PipelineInit(ServerPayloads) /\ ImportIdle
       \/ route = "import" /\ ImportStart(ServerRequests)

\* parseBody throws before the route's code runs: lines 182-210
ParseBodyFails ==
    /\ status = 0
    /\ \/ route = "estimate" /\ pc = "sanitize"
       \/ route = "import" /\ ipc = "url"
    /\ \E message \in {"payload_too_large", "invalid_json"} :
           Catch(JsError("Error", message))
    /\ pc' = "idle"
    /\ ipc' = "idle"
    /\ UNCHANGED <<payload, error, input, scanVars, byOs, result, calls, earlier, storeVars, route, cliVars>>
    /\ UNCHANGED <<workflowUrl, rawWorkflowUrl, requestedUrl, remote, aborted, response, thrown,
                   fetchedYaml, timeout, elapsed>>

\* lines 307-349: the session is stored and the estimate sent, unless the
\* store fails
RespondEstimate ==
    /\ route = "estimate"
    /\ pc = "done"
    /\ status = 0
    /\ \/ status' = 200 /\ responseError' = ""
       \/ Catch(JsError("Error", "ENOSPC: no space left on device, write"))
    /\ UNCHANGED <<estVars, calls, earlier, storeVars, impVars, route, cliVars>>

\* sanitizeEstimateInput threw on line 304
RespondEstimateError ==
    /\ route = "estimate"
    /\ pc = "rejected"
    /\ status = 0
    /\ Catch(JsError("Error", error))
    /\ UNCHANGED <<estVars, calls, earlier, storeVars, impVars, route, cliVars>>

\* lines 358-363
RespondImport ==
    /\ route = "import"
    /\ ipc = "resolved"
    /\ status = 0
    /\ status' = 200
    /\ responseError' = ""
    /\ UNCHANGED <<estVars, calls, earlier, storeVars, impVars, route, cliVars>>

\* one of lines 354-356 threw
RespondImportError ==
    /\ route = "import"
    /\ ipc = "failed"
    /\ status = 0
    /\ Catch(JsError("Error", thrown))
    /\ UNCHANGED <<estVars, calls, earlier, storeVars, impVars, route, cliVars>>

ServerNext ==
    \/ Next
    \/ ImportNext
    \/ ParseBodyFails
    \/ RespondEstimate
    \/ RespondEstimateError
    \/ RespondImport
    \/ RespondImportError

ServerSpec == ServerInit /\ [][ServerNext]_vars

(***************************************************************************)
(* The browser client: the estimate, checkout, proof and export handlers   *)
(***************************************************************************)
\* most sessions the server creates in a behaviour
MaxSessions == 3

\* resetBillingState: lines 185-194
resetBillingState ==
    /\ exportUnlocked' = FALSE
    /\ proofFormHidden' = TRUE
    /\ billingStatus' = "Checkout not started."

\* setBusyState: lines 223-232
setBusyState(isBusy) ==
    /\ submitDisabled' = isBusy
    /\ startPaidDisabled' = isBusy

\* generateEstimate after its await, lines 243-245: the session of the
\* response becomes the active one and renderEstimate resets the billing state
EstimateArrives ==
    /\ sessions < MaxSessions
    /\ sessions' = sessions + 1
    /\ activeSessionId' = sessions + 1
    /\ resetBillingState

ClientInit ==
    /\ ClientLoaded
    /\ PipelineIdle
    /\ payload = Payload(JsUndefined, JsUndefined, JsUndefined, JsUndefined)
    /\ ImportIdle
    /\ ServerIdle
    /\ calls = 1
    /\ earlier = {}
    /\ StoreEmpty

\* estimateForm submit, lines 289-294: up to the await
EstimateSubmit ==
    /\ ~submitDisabled
    /\ est = "idle"
    /\ setBusyState(TRUE)
    /\ est' = "pending"
    /\ UNCHANGED <<activeSessionId, exportUnlocked, proofFormHidden, billingStatus>>
    /\ UNCHANGED <<checkoutDisabled, proofDisabled, exportDisabled, cko, prf, exp>>
    /\ UNCHANGED <<ckoSession, prfSession, expSession, sessions, accepted>>
    /\ UNCHANGED <<estVars, calls, earlier, storeVars, impVars, srvVars>>

\* the estimate of the submit handler resolves: lines 243-245, 299-301
EstimateOk ==
    /\ est = "pending"
    /\ EstimateArrives
    /\ setBusyState(FALSE)
    /\ est' = "idle"
    /\ UNCHANGED <<checkoutDisabled, proofDisabled, exportDisabled, cko, prf, exp>>
    /\ UNCHANGED <<ckoSession, prfSession, expSession, accepted>>
    /\ UNCHANGED <<estVars, calls, earlier, storeVars, impVars, srvVars>>

\* it rejects: lines 295-301
EstimateFails ==
    /\ est = "pending"
    /\ billingStatus' = "Estimate failed. Fix input and retry."
    /\ setBusyState(FALSE)
    /\ est' = "idle"
    /\ UNCHANGED <<activeSessionId, exportUnlocked, proofFormHidden>>
    /\ UNCHANGED <<checkoutDisabled, proofDisabled, exportDisabled, cko, prf, exp>>
    /\ UNCHANGED <<ckoSession, prfSession, expSession, sessions, accepted>>
    /\ UNCHANGED <<estVars, calls, earlier, storeVars, impVars, srvVars>>

\* openCheckout up to its first await, lines 356-379
openCheckout(bootstrapEstimate) ==
    IF bootstrapEstimate /\ activeSessionId = 0
    THEN /\ cko' = "estimate"
         /\ billingStatus' = "Preparing checkout..."
         /\ checkoutDisabled' = TRUE
         /\ startPaidDisabled' = TRUE
         /\ UNCHANGED ckoSession
    ELSE IF activeSessionId = 0
    THEN /\ billingStatus' = "Generate an estimate before checkout."
         /\ checkoutDisabled' = FALSE
         /\ startPaidDisabled' = FALSE
         /\ UNCHANGED <<cko, ckoSession>>
    ELSE /\ cko' = "checkout"
         /\ ckoSession' = activeSessionId
         /\ billingStatus' = "Preparing checkout..."
         /\ checkoutDisabled' = TRUE
         /\ startPaidDisabled' = TRUE

\* checkoutBtn click, lines 410-412
CheckoutClick ==
    /\ ~checkoutDisabled
    /\ openCheckout(FALSE)
    /\ UNCHANGED <<activeSessionId, exportUnlocked, proofFormHidden>>
    /\ UNCHANGED <<submitDisabled, proofDisabled, exportDisabled, est, prf, exp>>
    /\ UNCHANGED <<prfSession, expSession, sessions, accepted>>
    /\ UNCHANGED <<estVars, calls, earlier, storeVars, impVars, srvVars>>

\* startPaidBtn click, lines 415-417
StartPaidClick ==
    /\ ~startPaidDisabled
    /\ openCheckout(TRUE)
    /\ UNCHANGED <<activeSessionId, exportUnlocked, proofFormHidden>>
    /\ UNCHANGED <<submitDisabled, proofDisabled, exportDisabled, est, prf, exp>>
    /\ UNCHANGED <<prfSession, expSession, sessions, accepted>>
    /\ UNCHANGED <<estVars, calls, earlier, storeVars, impVars, srvVars>>

\* the bootstrap estimate of openCheckout resolves: lines 243-245, then
\* lines 373-379 with the new session
CheckoutEstimateOk ==
    /\ cko = "estimate"
    /\ EstimateArrives
    /\ cko' = "checkout"
    /\ ckoSession' = sessions + 1
    /\ UNCHANGED <<submitDisabled, checkoutDisabled, startPaidDisabled, proofDisabled, exportDisabled>>
    /\ UNCHANGED <<est, prf, exp, prfSession, expSession, accepted>>
    /\ UNCHANGED <<estVars, calls, earlier, storeVars, impVars, srvVars>>

\* a request of openCheckout rejects, or no payment URL came: lines 393-407
CheckoutFails ==
    /\ cko \in {"estimate", "checkout"}
    /\ billingStatus' = "Checkout could not start"
    /\ checkoutDisabled' = FALSE
    /\ startPaidDisabled' = FALSE
    /\ cko' = "idle"
    /\ UNCHANGED <<activeSessionId, exportUnlocked, proofFormHidden>>
    /\ UNCHANGED <<submitDisabled, proofDisabled, exportDisabled, est, prf, exp>>
    /\ UNCHANGED <<ckoSession, prfSession, expSession, sessions, accepted>>
    /\ UNCHANGED <<estVars, calls, earlier, storeVars, impVars, srvVars>>

\* the checkout request resolves: lines 381-392, 402-407
CheckoutOk ==
    /\ cko = "checkout"
    /\ billingStatus' = "Checkout session ready."
    /\ proofFormHidden' = FALSE
    /\ checkoutDisabled' = FALSE
    /\ startPaidDisabled' = FALSE
    /\ cko' = "idle"
    /\ UNCHANGED <<activeSessionId, exportUnlocked>>
    /\ UNCHANGED <<submitDisabled, proofDisabled, exportDisabled, est, prf, exp>>
    /\ UNCHANGED <<ckoSession, prfSession, expSession, sessions, accepted>>
    /\ UNCHANGED <<estVars, calls, earlier, storeVars, impVars, srvVars>>

\* proofForm submit, lines 420-436: up to the await
ProofSubmit ==
    /\ ~proofFormHidden
    /\ ~proofDisabled
    /\ IF activeSessionId = 0
       THEN /\ billingStatus' = "Generate an estimate before submitting proof."
            /\ UNCHANGED <<proofDisabled, prf, prfSession>>
       ELSE /\ billingStatus' = "Submitting payment proof..."
            /\ proofDisabled' = TRUE
            /\ prf' = "pending"
            /\ prfSession' = activeSessionId
    /\ UNCHANGED <<activeSessionId, exportUnlocked, proofFormHidden>>
    /\ UNCHANGED <<submitDisabled, checkoutDisabled, startPaidDisabled, exportDisabled, est, cko, exp>>
    /\ UNCHANGED <<ckoSession, expSession, sessions, accepted>>
    /\ UNCHANGED <<estVars, calls, earlier, storeVars, impVars, srvVars>>

\* the server accepted the proof for the session it was sent with and the
\* request resolves: lines 437-438, 445-447
ProofOk ==
    /\ prf = "pending"
    /\ accepted' = accepted \cup {prfSession}
    /\ exportUnlocked' = TRUE
    /\ billingStatus' = "Payment proof accepted. Export is unlocked."
    /\ proofDisabled' = FALSE
    /\ prf' = "idle"
    /\ UNCHANGED <<activeSessionId, proofFormHidden>>
    /\ UNCHANGED <<submitDisabled, checkoutDisabled, startPaidDisabled, exportDisabled, est, cko, exp>>
    /\ UNCHANGED <<ckoSession, prfSession, expSession, sessions>>
    /\ UNCHANGED <<estVars, calls, earlier, storeVars, impVars, srvVars>>

\* the proof request rejects: lines 439-447
ProofFails ==
    /\ prf = "pending"
    /\ billingStatus' = "Payment proof failed"
    /\ proofDisabled' = FALSE
    /\ prf' = "idle"
    /\ UNCHANGED <<activeSessionId, exportUnlocked, proofFormHidden>>
    /\ UNCHANGED <<submitDisabled, checkoutDisabled, startPaidDisabled, exportDisabled, est, cko, exp>>
    /\ UNCHANGED <<ckoSession, prfSession, expSession, sessions, accepted>>
    /\ UNCHANGED <<estVars, calls, earlier, storeVars, impVars, srvVars>>

\* exportBtn click, lines 450-464: up to the await
ExportClick ==
    /\ ~exportDisabled
    /\ IF activeSessionId = 0
       THEN /\ billingStatus' = "Generate an estimate before export."
            /\ UNCHANGED <<exportDisabled, exp, expSession>>
       ELSE IF ~exportUnlocked
       THEN /\ billingStatus' = "Complete checkout and payment proof first."
            /\ UNCHANGED <<exportDisabled, exp, expSession>>
       ELSE /\ billingStatus' = "Preparing export..."
            /\ exportDisabled' = TRUE
            /\ exp' = "pending"
            /\ expSession' = activeSessionId
    /\ UNCHANGED <<activeSessionId, exportUnlocked, proofFormHidden>>
    /\ UNCHANGED <<submitDisabled, checkoutDisabled, startPaidDisabled, proofDisabled, est, cko, prf>>
    /\ UNCHANGED <<ckoSession, prfSession, sessions, accepted>>
    /\ UNCHANGED <<estVars, calls, earlier, storeVars, impVars, srvVars>>

\* the export request settles: lines 466-480
ExportSettles ==
    /\ exp = "pending"
    /\ billingStatus' \in {"Policy pack ready", "Export failed"}
    /\ exportDisabled' = FALSE
    /\ exp' = "idle"
    /\ UNCHANGED <<activeSessionId, exportUnlocked, proofFormHidden>>
    /\ UNCHANGED <<submitDisabled, checkoutDisabled, startPaidDisabled, proofDisabled, est, cko, prf>>
    /\ UNCHANGED <<ckoSession, prfSession, expSession, sessions, accepted>>
    /\ UNCHANGED <<estVars, calls, earlier, storeVars, impVars, srvVars>>

ClientNext ==
    \/ EstimateSubmit
    \/ EstimateOk
    \/ EstimateFails
    \/ CheckoutClick
    \/ StartPaidClick
    \/ CheckoutEstimateOk
    \/ CheckoutFails
    \/ CheckoutOk
    \/ ProofSubmit
    \/ ProofOk
    \/ ProofFails
    \/ ExportClick
    \/ ExportSettles

ClientSpec == ClientInit /\ [][ClientNext]_vars

(***************************************************************************)
(* The store of the server: sessions, events and the two files             *)
(***************************************************************************)
\* line 12
MAX_BODY_BYTES == 2 * 1024 * 1024

\* the value of event.sessionId when it is null
NoSession == ""

\* randomUUID: the n-th identifier drawn; no two draws are alike
Uuid(n) ==
    <<"1b9d6bcd-bbfd-4b2d-9b5d-ab8dfbbd4bed", "9c5b94b1-35ad-49bb-b118-8e8fc24abf80",
      "6ec0bd7f-11c0-43da-975e-2a8ad9ebae0b", "3f2504e0-4f89-41d3-9a0c-0305e82c3301",
      "7d444840-9dc0-11d1-b245-5ffdce74fad2">>[n]

\* the own properties of Object.prototype, which every object literal inherits
ObjectPrototypeKeys ==
    {"constructor", "toString", "toLocaleString", "valueOf", "hasOwnProperty",
     "isPrototypeOf", "propertyIsEnumerable", "__proto__", "__defineGetter__",
     "__defineSetter__", "__lookupGetter__", "__lookupSetter__"}

\* a request body: its size, what JSON.parse makes of it ("object", "invalid"
\* or "empty" for a body of white space) and the fields of the object
Body(bytes, json, fields) == [bytes |-> bytes, json |-> json, fields |-> fields]

Fields(w, r, b, m, selfTest, sessionId) ==
    [workflowYaml |-> w, monthlyRuns |-> r, budgetUsd |-> b, policyMode |-> m,
     selfTest |-> selfTest, sessionId |-> sessionId]

\* the object {} of lines 194 and 198
NoFields ==
    Fields(JsUndefined, JsUndefined, JsUndefined, JsUndefined, JsUndefined, JsUndefined)

\* parseBody, lines 182-210
parseBody(body) ==
    IF body.bytes > MAX_BODY_BYTES
    THEN [error |-> "payload_too_large", parsed |-> NoFields]
    ELSE IF body.bytes = 0 \/ body.json = "empty"
    THEN [error |-> "none", parsed |-> NoFields]
    ELSE IF body.json = "invalid"
    THEN [error |-> "invalid_json", parsed |-> NoFields]
    ELSE [error |-> "none", parsed |-> body.fields]

\* parseBoolean, lines 73-85
parseBoolean(value) ==
    CASE value.type = "boolean" -> value.str = "true"
      [] value.type = "number" -> value.num = Fin(Scale)
      [] value.type = "string" -> ToLowerCase(Trim(value.str)) \in {"true", "1", "yes"}
      [] OTHER -> FALSE

\* state.sessions[sessionId]: the session stored under the key, a member of
\* Object.prototype for a key the object inherits, undefined otherwise
SessionAt(st, sessionId) ==
    IF sessionId \in DOMAIN st.sessions
    THEN [truthy |-> TRUE, selfTest |-> st.sessions[sessionId].selfTest]
    ELSE IF sessionId \in ObjectPrototypeKeys
    THEN [truthy |-> TRUE, selfTest |-> JsUndefined]
    ELSE [truthy |-> FALSE, selfTest |-> JsUndefined]

\* JSON.stringify of an event: a property whose value is undefined is left out
StringifyEvent(event) ==
    IF event.selfTest = JsUndefined
    THEN [eventType |-> event.eventType, sessionId |-> event.sessionId]
    ELSE event

\* JSON.stringify(state), line 118
Stringify(st) ==
    [sessions |-> st.sessions,
     events |-> [i \in 1..Len(st.events) |-> StringifyEvent(st.events[i])]]

\* lines 119-121: the write is chained behind the writes already queued
Chain(queue, content) == Append(queue, [content |-> content, status |-> "queued"])

\* lines 142-151 with the record pushed twice
RecordTwice(st, eventType, selfTest, sessionId) ==
    LET record == [eventType |-> eventType, selfTest |-> selfTest, sessionId |-> sessionId]
    IN [st EXCEPT !.events = Append(Append(@, record), record)]

\* lines 142-151: the record is made and pushed (its eventId, timestamp,
\* source and details are left out)
Record(st, eventType, selfTest, sessionId) ==
    [st EXCEPT !.events =
        Append(@, [eventType |-> eventType, selfTest |-> selfTest, sessionId |-> sessionId])]

\* calculateCounts, lines 106-115; filter is JsUndefined for no argument
calculateCounts(st, selfTestFilter) ==
    [eventType \in {"landing_view", "estimate_generated", "checkout_started"} |->
        Cardinality({i \in 1..Len(st.events) :
            /\ st.events[i].eventType = eventType
            /\ ~(selfTestFilter.type = "boolean" /\ st.events[i].selfTest # selfTestFilter)})]

\* what the requests of a route are sent with
EstimateFields ==
    {Fields(JsString(ScenarioA), JsNumber(Fin(500000)), JsNumber(Fin(40000)), JsString("block"),
            JsBoolean(TRUE), JsUndefined),
     Fields(JsString("jobs:"), JsString("420"), JsNumber(Fin(20000)), JsString("warn"),
            JsUndefined, JsUndefined),
     Fields(JsString("jobs:"), JsNumber(Fin(500000)), JsNumber(Fin(40000)), JsString("noop"),
            JsString("yes"), JsUndefined)}

CheckoutFields ==
    {Fields(JsUndefined, JsUndefined, JsUndefined, JsUndefined, JsUndefined, sessionId) :
        sessionId \in {JsUndefined, JsString(" " \o Uuid(1) \o "\n"), JsString(Uuid(5)),
                       JsString("constructor")}}

Bodies(pathname) ==
    CASE pathname = "estimate" ->
            {Body(400, "object", f) : f \in EstimateFields}
              \cup {Body(MAX_BODY_BYTES + 1, "object", f) : f \in EstimateFields}
              \cup {Body(MAX_BODY_BYTES, "invalid", NoFields), Body(0, "empty", NoFields)}
      [] pathname = "checkout" ->
            {Body(60, "object", f) : f \in CheckoutFields}
      [] pathname = "landing-view" ->
            {Body(30, "object", Fields(JsUndefined, JsUndefined, JsUndefined, JsUndefined,
                                        JsString("TRUE "), JsUndefined))}

Routes == {"estimate", "checkout", "landing-view"}

\* the rest of the model stays as it is
OthersUnchanged == UNCHANGED <<estVars, calls, earlier, impVars, srvVars, cliVars>>

\* the handlers are numbered in the order in which the bodies of their
\* requests have been read: until then a handler has looked at nothing but
\* the method and the path of its request
UpTo(h) == IF h = 1 THEN TRUE ELSE handlers[h - 1].at \in {"writes", "sent"}

\* handler h sends its response and returns: its locals are gone
Send(h, reply) ==
    handlers' = [handlers EXCEPT ![h] =
        [@ EXCEPT !.at = "sent", !.status = reply.status, !.error = reply.error,
                  !.body = <<>>, !.awaited = {}]]

\* a request arrives and its handler runs up to the await of parseBody
Receive(h) ==
    /\ handlers[h].at = "idle"
    /\ UpTo(h)
    /\ \E pathname \in Routes : \E body \in Bodies(pathname) :
           handlers' = [handlers EXCEPT ![h] =
               [@ EXCEPT !.at = "body", !.route = pathname, !.body = body]]
    /\ UNCHANGED <<state, stateWriteQueue, eventWriteQueue, stateFile, eventsFile>>
    /\ OthersUnchanged

\* GET /api/metrics, lines 397-407: no await
GetMetrics(h) ==
    /\ handlers[h].at = "idle"
    /\ UpTo(h)
    /\ handlers' = [handlers EXCEPT ![h] =
           [@ EXCEPT !.at = "sent", !.route = "metrics", !.status = 200,
                     !.totals = [includingSelfTests |-> calculateCounts(state, JsUndefined),
                                 excludingSelfTests |-> calculateCounts(state, JsBoolean(FALSE)),
                                 sessionCount |-> Cardinality(DOMAIN state.sessions)]]]
    /\ UNCHANGED <<state, stateWriteQueue, eventWriteQueue, stateFile, eventsFile>>
    /\ OthersUnchanged

\* lines 133-153 from a handler: the event is recorded, its line and the
\* state are queued, and the handler waits for both writes
TrackAndWait(h, st, queue, eventType, selfTest, sessionId) ==
    LET recorded == Record(st, eventType, selfTest, sessionId)
        written == Chain(queue, Stringify(recorded))
    IN /\ state' = recorded
       /\ eventWriteQueue' =
              Chain(eventWriteQueue, StringifyEvent(recorded.events[Len(recorded.events)]))
       /\ stateWriteQueue' = written
       /\ handlers' = [handlers EXCEPT ![h] =
              [@ EXCEPT !.at = "writes",
                        !.body = <<>>,
                        !.sessionId = sessionId,
                        !.awaited = {<<"state", i>> : i \in (Len(stateWriteQueue) + 1)..Len(written)}
                                      \cup {<<"event", Len(eventWriteQueue) + 1>>}]]

\* a request is answered without a change of the store
Reject(h, message) ==
    /\ Send(h, CatchReply(JsError("Error", message)))
    /\ UNCHANGED <<state, stateWriteQueue, eventWriteQueue>>

\* POST /api/events/landing-view, lines 286-295, once the body is read
PostLandingView(h) ==
    /\ handlers[h].at = "body"
    /\ handlers[h].route = "landing-view"
    /\ LET body == parseBody(handlers[h].body)
       IN IF body.error # "none"
          THEN Reject(h, body.error)
          ELSE TrackAndWait(h, state, stateWriteQueue, "landing_view",
                            JsBoolean(parseBoolean(body.parsed.selfTest)), NoSession)
    /\ UNCHANGED <<stateFile, eventsFile>>
    /\ OthersUnchanged

\* the estimate route storing the session before the input is validated
PostEstimateStoresFirst(h) ==
    /\ handlers[h].at = "body"
    /\ handlers[h].route = "estimate"
    /\ LET body == parseBody(handlers[h].body)
           r == sanitizeEstimateInput(body.parsed)
           sessionId == Uuid(Cardinality(DOMAIN state.sessions) + 1)
           selfTest == JsBoolean(parseBoolean(body.parsed.selfTest))
           session == [sessionId |-> sessionId, selfTest |-> selfTest,
                       budgetUsd |-> 0, monthlyRuns |-> 0]
           stored == [state EXCEPT !.sessions = @ @@ (sessionId :> session)]
       IN IF body.error # "none"
          THEN Reject(h, body.error)
          ELSE IF r.error # "none"
          THEN /\ Send(h, CatchReply(JsError("Error", r.error)))
               /\ state' = stored
               /\ stateWriteQueue' = Chain(stateWriteQueue, Stringify(stored))
               /\ UNCHANGED eventWriteQueue
          ELSE TrackAndWait(h, stored, Chain(stateWriteQueue, Stringify(stored)),
                            "estimate_generated", selfTest, sessionId)
    /\ UNCHANGED <<stateFile, eventsFile>>
    /\ OthersUnchanged

\* POST /api/estimate, lines 301-333, once the body is read: the input is
\* validated, the session stored, saveState called, the event tracked (the
\* figures estimateWorkflowCost adds to the session are left out)
PostEstimate(h) ==
    /\ handlers[h].at = "body"
    /\ handlers[h].route = "estimate"
    /\ LET body == parseBody(handlers[h].body)
           r == sanitizeEstimateInput(body.parsed)
           sessionId == Uuid(Cardinality(DOMAIN state.sessions) + 1)
           selfTest == JsBoolean(parseBoolean(body.parsed.selfTest))
           session == [sessionId |-> sessionId, selfTest |-> selfTest,
                       budgetUsd |-> r.input.budgetUsd, monthlyRuns |-> r.input.monthlyRuns]
           stored == [state EXCEPT !.sessions = @ @@ (sessionId :> session)]
       IN IF body.error # "none"
          THEN Reject(h, body.error)
          ELSE IF r.error # "none"
          THEN Reject(h, r.error)
          ELSE TrackAndWait(h, stored, Chain(stateWriteQueue, Stringify(stored)),
                            "estimate_generated", selfTest, sessionId)
    /\ UNCHANGED <<stateFile, eventsFile>>
    /\ OthersUnchanged

\* POST /api/billing/checkout, lines 367-386, once the body is read
PostCheckout(h) ==
    /\ handlers[h].at = "body"
    /\ handlers[h].route = "checkout"
    /\ LET body == parseBody(handlers[h].body)
           sessionId == IF body.parsed.sessionId.type = "string"
                        THEN Trim(body.parsed.sessionId.str) ELSE ""
           session == SessionAt(state, sessionId)
           selfTest == IF parseBoolean(body.parsed.selfTest)
                       THEN JsBoolean(TRUE) ELSE session.selfTest
       IN IF body.error # "none"
          THEN Reject(h, body.error)
          ELSE IF sessionId = "" \/ ~session.truthy
          THEN Reject(h, "invalid_session_id")
          ELSE TrackAndWait(h, state, stateWriteQueue, "checkout_started", selfTest, sessionId)
    /\ UNCHANGED <<stateFile, eventsFile>>
    /\ OthersUnchanged

\* the writes of both files that have failed
Failures ==
    Cardinality({i \in 1..Len(stateWriteQueue) : stateWriteQueue[i].status = "failed"})
      + Cardinality({i \in 1..Len(eventWriteQueue) : eventWriteQueue[i].status = "failed"})

\* an operation of a queue that runs as soon as it is chained
ReadyUnchained(queue, i) == queue[i].status = "queued"

\* the chained operation that is running, lines 119-121 and 127-129: the
\* one whose predecessors have all settled, where catch lets it follow a
\* predecessor that failed
Ready(queue, i) ==
    /\ queue[i].status = "queued"
    /\ IF i = 1 THEN TRUE ELSE queue[i - 1].status \in {"done", "failed"}

\* what a file holds after a write that failed half way
Torn == [torn |-> TRUE]

\* lines 119-121: writeFile, called when the writes chained before it have
\* settled, settles: the file holds the payload, or the write has failed
StateWriteSettles ==
    /\ \E i \in 1..Len(stateWriteQueue) :
           /\ Ready(stateWriteQueue, i)
           /\ \/ /\ stateWriteQueue' = [stateWriteQueue EXCEPT ![i].status = "done"]
                 /\ stateFile' = stateWriteQueue[i].content
              \/ /\ Failures < MaxFailures
                 /\ stateWriteQueue' = [stateWriteQueue EXCEPT ![i].status = "failed"]
                 /\ stateFile' \in {stateFile, Torn}
    /\ UNCHANGED <<state, eventWriteQueue, eventsFile, handlers>>
    /\ OthersUnchanged

\* lines 127-129: appendFile, called when the appends chained before it have
\* settled, settles: the line is at the end of the file, or the append has
\* failed
EventWriteSettles ==
    /\ \E i \in 1..Len(eventWriteQueue) :
           /\ Ready(eventWriteQueue, i)
           /\ \/ /\ eventWriteQueue' = [eventWriteQueue EXCEPT ![i].status = "done"]
                 /\ eventsFile' = Append(eventsFile, eventWriteQueue[i].content)
              \/ /\ Failures < MaxFailures
                 /\ eventWriteQueue' = [eventWriteQueue EXCEPT ![i].status = "failed"]
                 /\ UNCHANGED eventsFile
    /\ UNCHANGED <<state, stateWriteQueue, stateFile, handlers>>
    /\ OthersUnchanged

\* the status of a write a handler waits for
StatusOf(write) ==
    IF write[1] = "state" THEN stateWriteQueue[write[2]].status
    ELSE eventWriteQueue[write[2]].status

\* the await of lines 289, 321 and 376 ends: with a rejection as soon as one
\* of the writes has failed, with the response of the route once all are done
PromiseSettles(h) ==
    /\ handlers[h].at = "writes"
    /\ \/ /\ \E write \in handlers[h].awaited : StatusOf(write) = "failed"
          /\ Send(h, CatchReply(JsError("Error", "ENOSPC: no space left on device, write")))
       \/ /\ \A write \in handlers[h].awaited : StatusOf(write) = "done"
          /\ Send(h, [status |-> 200, error |-> ""])
    /\ UNCHANGED <<state, stateWriteQueue, eventWriteQueue, stateFile, eventsFile>>
    /\ OthersUnchanged

StoreInit ==
    /\ StoreEmpty
    /\ PipelineIdle
    /\ payload = Payload(JsUndefined, JsUndefined, JsUndefined, JsUndefined)
    /\ ImportIdle
    /\ ServerIdle
    /\ ClientLoaded
    /\ calls = 1
    /\ earlier = {}

StoreNext ==
    \/ \E h \in 1..MaxRequests :
           \/ Receive(h)
           \/ GetMetrics(h)
           \/ PostLandingView(h)
           \/ PostEstimate(h)
           \/ PostCheckout(h)
           \/ PromiseSettles(h)
    \/ StateWriteSettles
    \/ EventWriteSettles

StoreSpec == StoreInit /\ [][StoreNext]_vars

(***************************************************************************)
(* Claims                                                                  *)
(***************************************************************************)
Done == pc = "done"
Sanitized == pc # "sanitize"
Accepted == pc \notin {"sanitize", "rejected"}

\* C1: the decision is "pass" whenever the monthly cost is at most the
\* budget (equality included) and exactly the input's policy mode whenever
\* the monthly cost exceeds the budget; never "block" under mode "warn" nor
\* "warn" under mode "block".
C1_PolicyDecision ==
    Done =>
        LET sm == result.summary
        IN /\ sm.monthlyCostUsd <= sm.budgetUsd => sm.policyDecision = "pass"
           /\ sm.monthlyCostUsd > sm.budgetUsd => sm.policyDecision = input.policyMode
           /\ input.policyMode = "warn" => sm.policyDecision # "block"
           /\ input.policyMode = "block" => sm.policyDecision # "warn"
           /\ sm.budgetUsd = input.budgetUsd

\* an estimate whose monthly cost equals a positive budget, decided "pass"
C1_Witness ==
    /\ Done
    /\ result.summary.monthlyCostUsd = result.summary.budgetUsd
    /\ result.summary.budgetUsd > 0
    /\ result.summary.policyDecision = "pass"

\* C2 (as claimed): every returned EstimateInput has monthlyRuns an integer
\* in 1..1,000,000.
C2_MonthlyRunsInRange ==
    Accepted => input.monthlyRuns \in 1..MaxMonthlyRuns

\* C3 (as claimed): every returned EstimateInput has budgetUsd strictly
\* positive, at most 1,000,000 and a whole number of cents.
C3_BudgetInRange ==
    Accepted =>
        /\ input.budgetUsd > 0
        /\ input.budgetUsd <= MaxBudgetUsd * Scale
        /\ input.budgetUsd % 10 = 0

\* the rules of the four fields, read off the raw payload
WorkflowViolates(raw) ==
    \/ raw.type # "string"
    \/ Trim(raw.str) = ""
    \/ Len(Trim(raw.str)) > 100000

NumberViolates(raw) ==
    LET n == ToNumber(raw)
    IN n.tag # "fin" \/ n.v <= 0 \/ n.v > 1000000 * Scale

ModeViolates(raw) ==
    \/ raw.type # "string"
    \/ ToLowerCase(Trim(raw.str)) \notin {"warn", "block"}

\* C4: sanitizeEstimateInput returns an EstimateInput or fails with exactly
\* one of the four codes; it fails if and only if at least one field
\* violates its rule, and the code names a field that is invalid.
C4_RejectsExactlyInvalid ==
    Sanitized =>
        /\ error \in {"none", "invalid_workflow_yaml", "invalid_monthly_runs",
                      "invalid_budget_usd", "invalid_policy_mode"}
        /\ (error # "none") <=> (pc = "rejected")
        /\ (error = "none") <=> (input # NoInput)
        /\ (error # "none") <=>
               \/ WorkflowViolates(payload.workflowYaml)
               \/ NumberViolates(payload.monthlyRuns)
               \/ NumberViolates(payload.budgetUsd)
               \/ ModeViolates(payload.policyMode)
        /\ error = "invalid_workflow_yaml" => WorkflowViolates(payload.workflowYaml)
        /\ error = "invalid_monthly_runs" => NumberViolates(payload.monthlyRuns)
        /\ error = "invalid_budget_usd" => NumberViolates(payload.budgetUsd)
        /\ error = "invalid_policy_mode" => ModeViolates(payload.policyMode)

\* a request rejected for its budget although its policy mode is invalid too
C4_Witness ==
    /\ pc = "rejected"
    /\ error = "invalid_budget_usd"
    /\ payload.budgetUsd = JsString("$5")
    /\ ModeViolates(payload.policyMode)

(***************************************************************************)
(* What the text holds, read line by line                                  *)
(***************************************************************************)
\* which patterns a raw line matches once its comment is stripped
LineFacts(rawLine) ==
    LET clean == StripComment(rawLine)
    IN [blank |-> Trim(clean) = "",
        marker |-> IsJobsMarker(Trim(clean)),
        header |-> IsJobHeader(clean),
        runsOn |-> IsRunsOn(clean),
        uses |-> IsUses(clean),
        run |-> IsRun(clean)]

RECURSIVE FactsOf(_)
FactsOf(ls) ==
    IF ls = <<>> THEN <<>> ELSE <<LineFacts(Head(ls))>> \o FactsOf(Tail(ls))

\* What the split text holds, read line by line: the job headers after the
\* first marker line, and for each header the uses and run lines up to the
\* next header.
TextLayout ==
    LET facts == FactsOf(lines)
        n == Len(facts)
        markers == {j \in 1..n : facts[j].marker}
        section == {j \in 1..n : ~facts[j].blank /\ \E m \in markers : m < j}
        headers == {j \in section : facts[j].header}
        body(h) == {j \in section \ headers :
                       j > h /\ \A h2 \in headers : h2 > h => j < h2}
    IN [headers |-> headers,
        rank |-> [h \in headers |-> Cardinality({h2 \in headers : h2 <= h})],
        uses |-> [h \in headers |-> Cardinality({j \in body(h) : facts[j].uses})],
        run |-> [h \in headers |-> Cardinality({j \in body(h) : facts[j].run})],
        orphanRunsOn |-> \E j \in section : facts[j].runsOn,
        orphanRun |-> \E j \in section : facts[j].run]

\* the number of step lines inside recognized jobs
RECURSIVE StepLineCount(_, _)
StepLineCount(layout, hs) ==
    IF hs = {} THEN 0
    ELSE LET h == CHOOSE x \in hs : TRUE
         IN layout.uses[h] + layout.run[h] + StepLineCount(layout, hs \ {h})

\* C5: when no job is recognized (no marker, an empty section, or a section
\* with runs-on and step lines but no job header) the estimate is exactly
\* the fallback: 1 job, 3 steps, 8.5 minutes, one linux entry; the job list
\* handed to the aggregator is never empty.
C5_Fallback ==
    /\ pc = "aggregate" => Len(jobs) >= 1
    /\ (Done /\ TextLayout.headers = {}) =>
           /\ jobs = <<[os |-> "linux", steps |-> 3, minutes |-> 8500]>>
           /\ result.summary.jobs = 1
           /\ result.summary.stepCount = 3
           /\ result.summary.minutesPerRun = 8500
           /\ Len(result.byOs) = 1
           /\ result.byOs[1].os = "linux"

\* an estimate of a text whose jobs section has a runs-on line and a step
\* line but no job header
C5_Witness ==
    /\ Done
    /\ LET layout == TextLayout
       IN layout.headers = {} /\ layout.orphanRunsOn /\ layout.orphanRun
    /\ result.summary.jobs = 1

\* C6: the monthly cost is the emitted per-run cost times the monthly runs,
\* rounded to cents.
C6_MonthlyCost ==
    Done =>
        result.summary.monthlyCostUsd
            = (((result.summary.costPerRunUsd * result.summary.monthlyRuns) + 5) \div 10) * 10

\* an estimate whose per-OS rounding changes the monthly cost
C6_Witness ==
    /\ Done
    /\ result.summary.monthlyRuns = 500
    /\ result.summary.costPerRunUsd = 20
    /\ jobs = <<[os |-> "linux", steps |-> 0, minutes |-> 2000]>>
    /\ result.summary.monthlyCostUsd = 10000

\* the sum of the emitted per-OS costs
ByOsCostSum == SumOver(result.byOs, "costPerRunUsd")

\* C7: the per-OS costs add up to the summary's per-run cost within 0.01 per
\* OS group.
C7_CostSum ==
    Done =>
        /\ ByOsCostSum - result.summary.costPerRunUsd <= 10 * Len(result.byOs)
        /\ result.summary.costPerRunUsd - ByOsCostSum <= 10 * Len(result.byOs)

\* an estimate with two OS groups of different non-zero cost
C7_Witness ==
    /\ Done
    /\ Len(result.byOs) = 2
    /\ result.byOs[1].costPerRunUsd > result.byOs[2].costPerRunUsd
    /\ result.byOs[2].costPerRunUsd > 0
    /\ result.summary.costPerRunUsd > result.byOs[1].costPerRunUsd

\* C8: a recognized job with u uses lines and r run lines contributes
\* 2 + 1.5u + 3r minutes and u + r steps; a single-job workflow with one
\* uses step and one run step has 6.5 minutes, 2 steps, 1 job.
C8_JobMinutes ==
    Done =>
        LET layout == TextLayout
        IN layout.headers # {} =>
               /\ Len(jobs) = Cardinality(layout.headers)
               /\ \A h \in layout.headers :
                      LET u == layout.uses[h]
                          r == layout.run[h]
                          job == jobs[layout.rank[h]]
                      IN /\ job.steps = u + r
                         /\ 2 * job.minutes = 4000 + 3000 * u + 6000 * r
               /\ (/\ Cardinality(layout.headers) = 1
                   /\ \A h \in layout.headers :
                          layout.uses[h] = 1 /\ layout.run[h] = 1) =>
                      /\ result.summary.minutesPerRun = 6500
                      /\ result.summary.stepCount = 2
                      /\ result.summary.jobs = 1

\* the estimate of a single job with one uses step and one run step
C8_Witness ==
    /\ Done
    /\ LET layout == TextLayout
       IN /\ Cardinality(layout.headers) = 1
          /\ \A h \in layout.headers : layout.uses[h] = 1 /\ layout.run[h] = 1
    /\ result.summary.minutesPerRun = 6500

\* C9 (as claimed): the summary's jobs equal the number of scanned jobs and
\* the sum of the per-OS jobs, its steps equal the number of recognized step
\* lines and the sum of the per-OS steps, its minutes equal the sum of the
\* job minutes.
C9_TotalsAsClaimed ==
    Done =>
        /\ result.summary.jobs = Len(jobs)
        /\ result.summary.jobs = SumOver(result.byOs, "jobs")
        /\ result.summary.stepCount = StepLineCount(TextLayout, TextLayout.headers)
        /\ result.summary.stepCount = SumOver(result.byOs, "stepCount")
        /\ result.summary.minutesPerRun = SumOver(jobs, "minutes")

\* C9 (amended): as claimed, with the steps equal to the sum of the scanned
\* jobs' steps, which is the number of recognized step lines when a job was
\* recognized and 3 for the fallback job.
C9_TotalsConserved ==
    Done =>
        /\ result.summary.jobs = Len(jobs)
        /\ result.summary.jobs = SumOver(result.byOs, "jobs")
        /\ result.summary.stepCount = SumOver(jobs, "steps")
        /\ LET layout == TextLayout
           IN IF layout.headers # {}
              THEN result.summary.stepCount = StepLineCount(layout, layout.headers)
              ELSE result.summary.stepCount = 3
        /\ result.summary.stepCount = SumOver(result.byOs, "stepCount")
        /\ result.summary.minutesPerRun = SumOver(jobs, "minutes")

\* the estimate of two jobs on two systems with five step lines
C9_Witness ==
    /\ Done
    /\ Len(jobs) = 2
    /\ Len(result.byOs) = 2
    /\ result.summary.stepCount = 5
    /\ result.summary.stepCount = StepLineCount(TextLayout, TextLayout.headers)

\* the runner systems of the scanned jobs
JobOses == {jobs[k].os : k \in 1..Len(jobs)}

\* the position of the first job on the system
FirstJobOn(os) ==
    CHOOSE k \in 1..Len(jobs) :
        jobs[k].os = os /\ \A k2 \in 1..(k - 1) : jobs[k2].os # os

\* C10: byOs has exactly one entry per distinct runner OS of the scanned
\* jobs, each os is linux, windows or macos, and the entries are in the
\* order of the first job of each OS.
C10_ByOsEntries ==
    pc \in {"estimate", "done"} =>
        /\ \A i \in 1..Len(byOs) : byOs[i].os \in {"linux", "windows", "macos"}
        /\ {byOs[i].os : i \in 1..Len(byOs)} = JobOses
        /\ Len(byOs) = Cardinality(JobOses)
        /\ \A i, j \in 1..Len(byOs) :
               i < j => FirstJobOn(byOs[i].os) < FirstJobOn(byOs[j].os)
        /\ Done => result.byOs = byOs

\* an estimate with a later job on the system of the first job and a job on
\* another system between them
C10_Witness ==
    /\ Done
    /\ Len(result.byOs) >= 2
    /\ result.byOs[1].os = jobs[1].os
    /\ result.byOs[1].jobs >= 2
    /\ \E k \in 3..Len(jobs) :
           jobs[k].os = jobs[1].os /\ jobs[k - 1].os # jobs[1].os

\* how far the call has come: it grows with every step and cannot exceed
\* the number of lines by more than 5
Progress ==
    CASE pc = "sanitize" -> 0
      [] pc \in {"parse", "rejected"} -> 1
      [] pc = "scan" -> 1 + lineNo
      [] pc = "aggregate" -> Len(lines) + 3
      [] pc = "estimate" -> Len(lines) + 4
      [] pc = "done" -> Len(lines) + 5

\* some step of the pipeline can be taken: the guards of the actions of Next
NextEnabled ==
    \/ pc \in {"sanitize", "parse", "aggregate", "estimate"}
    \/ pc = "scan" /\ lineNo > Len(lines)
    \/ AtLine /\ ~inJobs /\ IsJobsMarker(trimmed)
    \/ AtLine /\ ~(~inJobs /\ IsJobsMarker(trimmed)) /\ (~inJobs \/ trimmed = "")
    \/ InSection /\ IsJobHeader(line)
    \/ InSection /\ currentJob = NullJob /\ ~IsJobHeader(line)
    \/ InJob

\* C11: estimateWorkflowCost is total: on every accepted input, whatever the
\* text holds, no error is raised after the sanitizer, the call can always
\* take its next step until it has returned, and every step brings it
\* nearer to the return, so it terminates with a result.
C11_EstimateTotal ==
    /\ [](Accepted => error = "none")
    /\ [](pc = "rejected" => error # "none")
    /\ [](Accepted => (Done \/ NextEnabled))
    /\ [](Progress <= Len(payload.workflowYaml.str) + 6)
    /\ [][Progress' > Progress]_vars
    /\ [](Done => result # NoResult)

\* estimates returned for a text without a jobs section and for a job
\* without steps
C11_Witness ==
    /\ Done
    /\ \/ ~(\E j \in 1..Len(lines) : LineFacts(lines[j]).marker)
       \/ TextLayout.headers # {} /\ result.summary.stepCount = 0
    /\ result.summary.jobs >= 1

\* C12: estimateWorkflowCost is deterministic and keeps no state between
\* calls: a call returns what every earlier call with the same EstimateInput
\* returned, whatever calls ran in between.
C12_Deterministic ==
    Done => \A e \in earlier : e[1] = input => e[2] = result

\* a third call that repeats the input of an earlier one after a call with
\* another text, all three returning
C12_Witness ==
    /\ Done
    /\ calls = 3
    /\ Len(jobs) >= 2
    /\ \E e \in earlier : e[1] = input
    /\ \E e \in earlier : e[1].workflowYaml # input.workflowYaml

\* the EstimateInput handed to sanitizeEstimateInput as a payload
AsPayload(in) ==
    Payload(JsString(in.workflowYaml), JsNumber(Fin(in.monthlyRuns * Scale)),
            JsNumber(Fin(in.budgetUsd)), JsString(in.policyMode))

\* C13 (as claimed): for every accepted payload, sanitizeEstimateInput
\* applied to its own output succeeds and returns the same EstimateInput, so
\* that the estimate of the twice-sanitized input is the estimate of the
\* once-sanitized one.
C13_SanitizeIdempotent ==
    Accepted =>
        LET again == sanitizeEstimateInput(AsPayload(input))
        IN /\ again.error = "none"
           /\ again.input = input

\* resolveRawWorkflowUrl has returned or thrown
Resolved == ipc \notin {"idle", "url", "resolve"}

\* C14: for an https github.com URL with the path /owner/repo/blob/ref/<file
\* path> or /owner/repo/raw/ref/<file path>, the file path non-empty and
\* ending in .yml or .yaml, resolveRawWorkflowUrl returns
\* https://raw.githubusercontent.com/owner/repo/ref/<file path>
C14_BlobToRaw ==
    \A mode \in {"blob", "raw"}, file \in FilePaths :
        /\ Resolved
        /\ file # ""
        /\ EndsWith(file, ".yml") \/ EndsWith(file, ".yaml")
        /\ workflowUrl = "https://github.com/actions/checkout/" \o mode \o "/main" \o file
        => /\ thrown = "none"
           /\ rawWorkflowUrl = "https://raw.githubusercontent.com/actions/checkout/main" \o file

\* the scheme, the authority and the path the URL was written with, for the
\* URLs of HostUrls
WrittenAs(s, a, p) == workflowUrl = s \o "://" \o a.text \o p

\* what the claim says of the rejections, and that the server fetches the
\* URL resolveRawWorkflowUrl returned
HostsRejected ==
    /\ Resolved /\ workflowUrl \in HostUrls
       => \A s \in UrlSchemes, a \in Authorities, p \in HostPaths :
           WrittenAs(s, a, p)
           => /\ ToLowerCase(s) # "https" => thrown = "invalid_workflow_url"
              /\ ToLowerCase(s) = "https" /\ a.host \notin {"github.com", "raw.githubusercontent.com"}
                 => thrown = "invalid_workflow_host"
              /\ thrown = "none" /\ a.host # "github.com"
                 => ToLowerCase(s) = "https" /\ a.host = "raw.githubusercontent.com"
    /\ requestedUrl # "" => requestedUrl = rawWorkflowUrl

\* an https URL on host raw.githubusercontent.com
OnRawHost(returned) ==
    /\ returned.ok
    /\ returned.protocol = "https:"
    /\ returned.hostname = "raw.githubusercontent.com"

FetchCodes ==
    {"workflow_fetch_failed", "workflow_fetch_timeout", "workflow_empty", "workflow_too_large"}

C17_ErrorVerbatim ==
    status # 0
    => /\ route = "estimate" /\ pc = "rejected" => status = 400 /\ responseError = error
       /\ route = "import" /\ ipc = "failed" => status = 400 /\ responseError = thrown

C17_Witness ==
    /\ status = 400
    /\ route = "import"
    /\ responseError = "workflow_too_large"
    /\ thrown = "workflow_too_large"

\* C18: the export request is sent only while a payment proof has been
\* accepted for the active session: whenever exportUnlocked is true, the
\* accepted proof was submitted for the current activeSessionId, and an
\* export request in flight names a session whose proof was accepted
C18_ExportGated ==
    /\ exportUnlocked
       => /\ prfSession = activeSessionId
          /\ activeSessionId \in accepted
    /\ exp = "pending" => expSession \in accepted

\* the line starts with exactly n spaces
ExactSpaces(l, n) ==
    /\ Substring(l, 1, n) = Repeat(" ", n)
    /\ CharAt(l, n + 1) \notin WhiteSpace

\* C19: a job header is recognized only with exactly two leading spaces, a
\* runs-on line only with exactly four and a uses or run line only with
\* exactly six; a line indented with tabs or with another number of spaces
\* adds no job, changes no OS and adds no step and no minutes
C19_ExactIndentation ==
    [][AtLine =>
        /\ jobs' # jobs \/ (currentJob = NullJob /\ currentJob' # NullJob)
           => ExactSpaces(line, 2)
        /\ currentJob # NullJob /\ jobs' = jobs /\ currentJob'.os # currentJob.os
           => ExactSpaces(line, 4)
        /\ currentJob # NullJob /\ jobs' = jobs
             /\ (currentJob'.steps # currentJob.steps \/ currentJob'.minutes # currentJob.minutes)
           => ExactSpaces(line, 6)]_vars

\* The jobs the text describes, header by header: a job per header line of
\* the section, in the order of the headers, its OS that of the last runs-on
\* line before the next header (linux if there is none), its steps and
\* minutes those of the step lines before the next header.
JobsByHeader ==
    LET facts == FactsOf(lines)
        layout == TextLayout
        header(r) == CHOOSE h \in layout.headers : layout.rank[h] = r
        body(h) == {j \in (h + 1)..Len(lines) :
                       /\ ~facts[j].blank
                       /\ \A h2 \in layout.headers : h2 > h => j < h2}
        runsOn(h) == {j \in body(h) : facts[j].runsOn}
        last(h) == CHOOSE j \in runsOn(h) : \A k \in runsOn(h) : k <= j
        os(h) == IF runsOn(h) = {} THEN "linux"
                 ELSE parseRunsOn(RunsOnRest(StripComment(lines[last(h)])))
    IN [r \in 1..Cardinality(layout.headers) |->
           [os |-> os(header(r)),
            steps |-> layout.uses[header(r)] + layout.run[header(r)],
            minutes |-> BaseJobMinutes + layout.uses[header(r)] * STEP_MINUTES.uses
                          + layout.run[header(r)] * STEP_MINUTES.run]]

\* C20: a recognized job header after the marker closes the open job and
\* opens a job with OS linux, 0 steps and 2.0 minutes; the final list holds
\* one job per recognized header, in header order, the last one closed at
\* the end of the input; a runs-on or step line changes only the job opened
\* last
C20_JobPerHeader ==
    /\ [](pc \in {"aggregate", "estimate", "done"} /\ TextLayout.headers # {}
            => jobs = JobsByHeader)
    /\ [][AtLine =>
            /\ Len(jobs') >= Len(jobs)
            /\ SubSeq(jobs', 1, Len(jobs)) = jobs
            /\ InSection /\ IsJobHeader(line)
               => /\ currentJob' = [os |-> "linux", steps |-> 0, minutes |-> 2000]
                  /\ jobs' = IF currentJob = NullJob THEN jobs ELSE Append(jobs, currentJob)
            /\ ~(InSection /\ IsJobHeader(line)) => jobs' = jobs]_vars

\* the five jobs of MixedWorkflow: macos, windows, linux, macos, linux
C20_Witness ==
    /\ Done
    /\ Cardinality(TextLayout.headers) = 5
    /\ Len(jobs) = 5
    /\ jobs[1] = [os |-> "macos", steps |-> 1, minutes |-> 5000]
    /\ jobs[2].os = "windows"
    /\ jobs[3] = [os |-> "linux", steps |-> 0, minutes |-> 2000]
    /\ jobs[5].steps = 3

\* the line is a jobs marker once its comment is stripped and it is trimmed
MarkerLine(rawLine) == IsJobsMarker(Trim(StripComment(rawLine)))

\* the line is a job header, a runs-on line or a step line
Recognized(l) == IsJobHeader(l) \/ IsRunsOn(l) \/ IsUses(l) \/ IsRun(l)

\* C21: recognition starts only after the first line matching the jobs
\* marker: job headers, runs-on lines and step lines before it change neither
\* the jobs nor a job's OS, steps or minutes, and after it a line that is no
\* job header, runs-on line or step line contributes nothing
C21_AfterMarkerOnly ==
    /\ [](pc = "scan" /\ (\A j \in 1..(lineNo - 1) : j <= Len(lines) => ~MarkerLine(lines[j]))
            => ~inJobs /\ jobs = <<>> /\ currentJob = NullJob)
    /\ [][AtLine /\ ~inJobs
            => /\ jobs' = jobs
               /\ currentJob' = currentJob
               /\ inJobs' => MarkerLine(lines[lineNo])]_vars
    /\ [][AtLine /\ inJobs /\ ~Recognized(line)
            => jobs' = jobs /\ currentJob' = currentJob /\ inJobs']_vars

\* MixedWorkflow past its first three lines: a job header and a run step
\* before the marker
C21_Witness ==
    /\ pc = "scan"
    /\ lineNo = 4
    /\ Len(lines) >= 4
    /\ ~inJobs
    /\ IsJobHeader(StripComment(lines[2]))
    /\ IsRun(StripComment(lines[3]))
    /\ MarkerLine(lines[4])
    /\ jobs = <<>>
    /\ currentJob = NullJob

\* the text holds the word, in any mix of upper and lower case
ContainsWord(text, word) ==
    \E i \in 1..Len(text) :
        /\ i + Len(word) - 1 <= Len(text)
        /\ ToLowerCase(Substring(text, i, i + Len(word) - 1)) = word

\* the OS a runs-on value names: windows before macos before linux
OsNamed(value) ==
    IF ContainsWord(value, "windows") THEN "windows"
    ELSE IF ContainsWord(value, "macos") \/ ContainsWord(value, "mac") THEN "macos"
    ELSE "linux"

\* what follows the first colon of a line
AfterColon(l) == Substring(l, FindSet(l, 1, {":"}) + 1, Len(l))

\* the OS of each job of the text, read off its lines: the one named by the
\* last runs-on line between the job's header and the next header, linux
\* where there is none
OsByHeader ==
    LET facts == FactsOf(lines)
        layout == TextLayout
        header(r) == CHOOSE h \in layout.headers : layout.rank[h] = r
        runsOn(h) == {j \in (h + 1)..Len(lines) :
                        /\ facts[j].runsOn
                        /\ \A h2 \in layout.headers : h2 > h => j < h2}
        last(h) == CHOOSE j \in runsOn(h) : \A k \in runsOn(h) : k <= j
    IN [r \in 1..Cardinality(layout.headers) |->
           IF runsOn(header(r)) = {} THEN "linux"
           ELSE OsNamed(AfterColon(StripComment(lines[last(header(r))])))]

\* C22: a recognized runs-on line sets the OS of the current job from its
\* value without regard to case, windows before macos before linux; of
\* several runs-on lines of a job the last decides, and a job without one
\* stays on linux
C22_RunsOnPrecedence ==
    /\ [][AtLine /\ IsRunsOn(line) /\ currentJob # NullJob
            => currentJob' = [currentJob EXCEPT !.os = OsNamed(AfterColon(line))]]_vars
    /\ [][AtLine /\ currentJob # NullJob /\ currentJob' # NullJob
                 /\ currentJob'.os # currentJob.os
            => IsRunsOn(line) \/ (IsJobHeader(line) /\ currentJob'.os = "linux")]_vars
    /\ [](Done /\ TextLayout.headers # {}
            => /\ Len(jobs) = Len(OsByHeader)
               /\ \A r \in 1..Len(jobs) : jobs[r].os = OsByHeader[r])

\* PrecedenceWorkflow scanned: windows wins over mac in either order, the
\* last runs-on line decides, and the job without one is on linux
C22_Witness ==
    /\ Done
    /\ payload.workflowYaml = JsString(PrecedenceWorkflow)
    /\ [r \in 1..Len(jobs) |-> jobs[r].os]
         = <<"windows", "windows", "linux", "macos", "macos", "linux">>

\* the rates of the table, in millionths of a dollar per thousandth of a minute
RatePerMinute(os) ==
    CASE os = "linux" -> 8 [] os = "windows" -> 16 [] os = "macos" -> 80

\* the jobs of one OS, by their positions in the scanned list
GroupOf(os) == {i \in 1..Len(jobs) : jobs[i].os = os}

\* sum over the positions of f, in millionths
RECURSIVE SumAt(_, _)
SumAt(positions, f) ==
    IF positions = {} THEN 0
    ELSE LET i == CHOOSE p \in positions : TRUE
         IN f[i] + SumAt(positions \ {i}, f)

\* minutes x rate of the group in millionths of a dollar, unrounded
GroupCostMillionths(os) ==
    SumAt(GroupOf(os), [i \in 1..Len(jobs) |-> jobs[i].minutes * RatePerMinute(os)])

GroupMinutes(os) ==
    SumAt(GroupOf(os), [i \in 1..Len(jobs) |-> jobs[i].minutes])

\* a number of millionths rounded half up to hundredths, in thousandths
Round2OfMillionths(m) == ((m + 5000) \div 10000) * 10

\* the sum of the jobs' costs with each cost rounded by itself, in thousandths
RoundedPerJob(os) ==
    SumAt(GroupOf(os),
          [i \in 1..Len(jobs) |-> Round2OfMillionths(jobs[i].minutes * RatePerMinute(os))])

\* C23: for each OS group the emitted cost per run is the full-precision
\* sum of minutes x rate over the jobs of the group (linux 0.008, windows
\* 0.016, macos 0.08) rounded once to two decimals, never a sum of rounded
\* job costs, and the emitted minutes are the sum of the jobs' minutes
C23_GroupRoundedOnce ==
    pc \in {"estimate", "done"} =>
        /\ {byOs[k].os : k \in 1..Len(byOs)} = {jobs[i].os : i \in 1..Len(jobs)}
        /\ \A k, l \in 1..Len(byOs) : byOs[k].os = byOs[l].os => k = l
        /\ \A k \in 1..Len(byOs) :
              /\ byOs[k].costPerRunUsd = Round2OfMillionths(GroupCostMillionths(byOs[k].os))
              /\ byOs[k].minutesPerRun = GroupMinutes(byOs[k].os)

\* two linux jobs of 2 minutes: 0.032 is emitted as 0.03, while the two
\* costs rounded one by one would add up to 0.04
C23_Witness ==
    /\ Done
    /\ Len(jobs) = 2
    /\ \E k \in 1..Len(byOs) :
          /\ byOs[k].os = "linux"
          /\ byOs[k].jobs = 2
          /\ byOs[k].costPerRunUsd = 30
          /\ RoundedPerJob("linux") = 40

\* the code of the first field, in the order workflow text, monthly runs,
\* budget, policy mode, whose raw value violates its rule
FirstInvalid(raw) ==
    CASE WorkflowViolates(raw.workflowYaml) -> "invalid_workflow_yaml"
      [] ~WorkflowViolates(raw.workflowYaml) /\ NumberViolates(raw.monthlyRuns)
            -> "invalid_monthly_runs"
      [] /\ ~WorkflowViolates(raw.workflowYaml)
         /\ ~NumberViolates(raw.monthlyRuns)
         /\ NumberViolates(raw.budgetUsd)
            -> "invalid_budget_usd"
      [] /\ ~WorkflowViolates(raw.workflowYaml)
         /\ ~NumberViolates(raw.monthlyRuns)
         /\ ~NumberViolates(raw.budgetUsd)
         /\ ModeViolates(raw.policyMode)
            -> "invalid_policy_mode"
      [] OTHER -> "none"

\* how many of the four raw fields violate their rules
InvalidFields(raw) ==
    Cardinality({f \in {"workflowYaml", "monthlyRuns", "budgetUsd", "policyMode"} :
        CASE f = "workflowYaml" -> WorkflowViolates(raw.workflowYaml)
          [] f = "monthlyRuns" -> NumberViolates(raw.monthlyRuns)
          [] f = "budgetUsd" -> NumberViolates(raw.budgetUsd)
          [] f = "policyMode" -> ModeViolates(raw.policyMode)})

\* C24: when several raw fields are invalid, sanitizeEstimateInput reports
\* the first invalid one in the order workflow text, monthlyRuns, budgetUsd,
\* policyMode
C24_FirstInvalidReported ==
    Sanitized /\ InvalidFields(payload) >= 2 => error = FirstInvalid(payload)

\* a request with a valid text whose three other fields are all invalid,
\* rejected for its monthly runs
C24_Witness ==
    /\ pc = "rejected"
    /\ InvalidFields(payload) = 3
    /\ ~WorkflowViolates(payload.workflowYaml)
    /\ error = "invalid_monthly_runs"

\* fetchWorkflowYaml is at one of its two awaits
FetchPending == ipc \in {"fetch", "text"}

\* fetchWorkflowYaml has returned or thrown
FetchSettled == timeout # "unset" /\ ipc \in {"resolved", "failed"}

\* C30: when the 8,000 ms timer fires before the remote fetch has completed
\* the request is aborted and fetchWorkflowYaml rejects with
\* workflow_fetch_timeout; the timer is cleared on every way out, so no
\* abort is issued after the call has settled
C30_TimeoutAborts ==
    /\ [](aborted => timeout = "fired" /\ elapsed >= 8000)
    /\ [](FetchSettled => timeout # "armed")
    /\ [](FetchSettled /\ aborted => ipc = "failed" /\ thrown = "workflow_fetch_timeout")
    /\ [][~aborted /\ aborted' => FetchPending /\ FetchPending' /\ elapsed >= 8000]_vars
    /\ [][aborted /\ FetchPending /\ ipc' # ipc
            => ipc' = "failed" /\ thrown' = "workflow_fetch_timeout"]_vars
    /\ [][FetchSettled => aborted' = aborted /\ timeout' = timeout]_vars

\* the timer fired while the text of the response was awaited and the call
\* was rejected as timed out
C30_Witness ==
    /\ ipc = "failed"
    /\ aborted
    /\ response.settled
    /\ thrown = "workflow_fetch_timeout"
    /\ timeout = "fired"

\* handler h has read the body of a request to the route and takes its step
AfterBody(h, pathname) == handlers[h].at = "body" /\ handlers[h].route = pathname

\* C25: a request whose body is larger than the 2 MiB of MAX_BODY_BYTES is
\* answered with status 413 and the error code payload_too_large
C25_TooLargeIs413 ==
    [][\A h \in 1..MaxRequests :
          /\ handlers[h].at = "body"
          /\ handlers[h].body.bytes > 2 * 1024 * 1024
          /\ handlers'[h].at = "sent"
          => handlers'[h].status = 413 /\ handlers'[h].error = "payload_too_large"]_vars

\* the operations of a queue that are running
InFlight(queue) == {i \in 1..Len(queue) : Ready(queue, i)}

\* the operations of a queue that have settled
Settled(queue) == {i \in 1..Len(queue) : queue[i].status \in {"done", "failed"}}

\* the writes of state.json run one at a time and in the order of the calls
\* of saveState, a write that failed does not hold up the next, and when
\* every write has been done the file holds the state in memory
StateWritesSerialized ==
    /\ Cardinality(InFlight(stateWriteQueue)) <= 1
    /\ \A i, j \in 1..Len(stateWriteQueue) :
          i < j /\ (j \in Settled(stateWriteQueue) \/ j \in InFlight(stateWriteQueue))
              => i \in Settled(stateWriteQueue)
    /\ \A i \in 1..Len(stateWriteQueue) :
          /\ stateWriteQueue[i].status = "failed"
          /\ i < Len(stateWriteQueue)
          /\ stateWriteQueue[i + 1].status = "queued"
          => i + 1 \in InFlight(stateWriteQueue)
    /\ (\A i \in 1..Len(stateWriteQueue) : stateWriteQueue[i].status = "done")
          => stateFile = Stringify(state)

\* every event recorded in memory is in events.jsonl once, in the order of
\* memory, as soon as no append is waiting or running
EventsAppendedOnce ==
    /\ Cardinality(InFlight(eventWriteQueue)) <= 1
    /\ Settled(eventWriteQueue) = 1..Len(eventWriteQueue)
          => eventsFile = [i \in 1..Len(state.events) |-> StringifyEvent(state.events[i])]

\* C26: the writes of state.json are serialized (one in flight at a time,
\* in the order saveState was called, a failed write not blocking the later
\* ones, the file equal to the state in memory once all writes have
\* succeeded), and each event is appended to events.jsonl exactly once and
\* in the order in which the events were recorded in memory
C26_WritesSerialized == StateWritesSerialized /\ EventsAppendedOnce

\* C27: a checkout is accepted only for a session that an earlier successful
\* estimate created: from an empty store every checkout_started event
\* carries a sessionId for which an estimate_generated event was recorded
\* before it
C27_CheckoutNeedsEstimate ==
    \A i \in 1..Len(state.events) :
        state.events[i].eventType = "checkout_started"
            => \E j \in 1..(i - 1) :
                  /\ state.events[j].eventType = "estimate_generated"
                  /\ state.events[j].sessionId = state.events[i].sessionId

\* what the route reads the four fields of the estimate from
Raw(body) == IF body.json = "object" /\ body.bytes > 0 THEN body.fields ELSE NoFields

\* the body is not JSON for an object, or one of its four fields is invalid
FailsValidation(body) == body.json = "invalid" \/ FirstInvalid(Raw(body)) # "none"

\* C28: an estimate request rejected by input validation, for a body that is
\* not valid JSON or for any error of sanitizeEstimateInput, leaves the state
\* of the server as it was: no session is created, no event is recorded and
\* no write is queued
C28_RejectedLeavesState ==
    [][\A h \in 1..MaxRequests :
          AfterBody(h, "estimate") /\ FailsValidation(handlers[h].body)
                                   /\ handlers'[h] # handlers[h]
          => /\ handlers'[h].at = "sent"
             /\ handlers'[h].status = 400
             /\ handlers[h].body.bytes <= 2 * 1024 * 1024
                   => handlers'[h].error =
                        IF handlers[h].body.json = "invalid" THEN "invalid_json"
                        ELSE FirstInvalid(Raw(handlers[h].body))
             /\ state' = state
             /\ stateWriteQueue' = stateWriteQueue
             /\ eventWriteQueue' = eventWriteQueue
             /\ stateFile' = stateFile
             /\ eventsFile' = eventsFile]_vars

\* a second estimate rejected for its policy mode after the first one was
\* stored: one session, one event, the two writes of the first estimate
C28_Witness ==
    /\ handlers[2].at = "sent"
    /\ handlers[2].route = "estimate"
    /\ handlers[2].error = "invalid_policy_mode"
    /\ handlers[1].route = "estimate"
    /\ Cardinality(DOMAIN state.sessions) = 1
    /\ Len(state.events) = 1
    /\ Len(stateWriteQueue) = 2
    /\ Len(eventWriteQueue) = 1

\* the positions in memory of the estimate_generated events of a session
EstimatesOf(st, sessionId) ==
    {i \in 1..Len(st.events) :
        /\ st.events[i].eventType = "estimate_generated"
        /\ st.events[i].sessionId = sessionId}

EstimateEvents(st) ==
    {i \in 1..Len(st.events) : st.events[i].eventType = "estimate_generated"}

\* C29: from an empty store, wherever another request can look at the state
\* in memory there are as many estimate_generated events as sessions: an
\* estimate adds one session and one estimate_generated event with its
\* sessionId in one step, sessions and events are never removed, and no
\* metrics count including self-tests is below the count excluding them
C29_SessionsMatchEvents ==
    /\ [](/\ Cardinality(EstimateEvents(state)) = Cardinality(DOMAIN state.sessions)
          /\ \A id \in DOMAIN state.sessions : Cardinality(EstimatesOf(state, id)) = 1
          /\ \A i \in EstimateEvents(state) : state.events[i].sessionId \in DOMAIN state.sessions
          /\ \A eventType \in DOMAIN calculateCounts(state, JsUndefined) :
                calculateCounts(state, JsUndefined)[eventType]
                    >= calculateCounts(state, JsBoolean(FALSE))[eventType]
          /\ \A h \in 1..MaxRequests :
                /\ handlers[h].route = "metrics"
                      => \A eventType \in DOMAIN handlers[h].totals.includingSelfTests :
                            handlers[h].totals.includingSelfTests[eventType]
                                >= handlers[h].totals.excludingSelfTests[eventType]
                /\ handlers[h].route = "estimate" /\ handlers[h].status = 200
                      => Cardinality(EstimatesOf(state, handlers[h].sessionId)) = 1)
    /\ [][/\ DOMAIN state.sessions \subseteq DOMAIN state'.sessions
          /\ \A id \in DOMAIN state.sessions : state'.sessions[id] = state.sessions[id]
          /\ Len(state'.events) >= Len(state.events)
          /\ SubSeq(state'.events, 1, Len(state.events)) = state.events
          /\ Cardinality(DOMAIN state'.sessions) <= Cardinality(DOMAIN state.sessions) + 1
          /\ Len(state'.events) <= Len(state.events) + 1
          /\ \A id \in DOMAIN state'.sessions \ DOMAIN state.sessions :
                /\ Len(state'.events) = Len(state.events) + 1
                /\ state'.events[Len(state'.events)].eventType = "estimate_generated"
                /\ state'.events[Len(state'.events)].sessionId = id]_vars

\* the metrics read after one estimate sent as a self-test: one session,
\* one estimate_generated event counted with the self-tests and none without
C29_Witness ==
    /\ handlers[1].route = "estimate"
    /\ handlers[2].route = "metrics"
    /\ handlers[2].at = "sent"
    /\ handlers[2].totals.sessionCount = 1
    /\ handlers[2].totals.includingSelfTests["estimate_generated"] = 1
    /\ handlers[2].totals.excludingSelfTests["estimate_generated"] = 0

====
